---- MODULE Spec2Model ----
(***************************************************************************)
(* Model of the MQTT connection registry (mqtt/manager.rs), the            *)
(* per-connection session actor (mqtt/session.rs) and the per-connection   *)
(* SQLite history store (history.rs) of mqtt-nexus.                        *)
(*                                                                         *)
(* The module holds several specifications over one set of variables:      *)
(*   SpecQuery     the query functions over an arbitrary stored table      *)
(*   SpecStore     append / clear / delete / query_latest on one store     *)
(*   SpecGuard     the guard (RwLock) discipline of HistoryManager         *)
(*   SpecRegistry  MqttManager::connect / disconnect run by several tasks  *)
(*   SpecSession   the three tasks of one session and its shutdown         *)
(*   SpecExport    export_connection over an arbitrary stored table        *)
(*   SpecPaths     the store files of several connection ids               *)
(*   SpecSupersede connect over a registered id, the old session in detail *)
(*   SpecPublish   mqtt_publish: the command and the Out history record    *)
(*   SpecPaging    a paging pass while batches are appended               *)
(*   SpecRoot      the history root directory and its renamed-away files  *)
(* Each specification leaves the variables of the other parts unchanged.   *)
(***************************************************************************)
EXTENDS Integers, Sequences, FiniteSets, TLC

VARIABLES
    \* ---- history store (history.rs) ----
    db,          \* the store file of the connection: NoFile or [rows, seq]
    leftover,    \* whether renamed-away "<name>.deleting.<ms>" files are still on disk
    txn,         \* the write transaction of an insert_batch in progress, or NoTxn
    appended,    \* history: the messages committed to the current store file, in commit order
    reply,       \* the value returned by the last history call
    pager,       \* a client paging through the history with query_latest / query_before
    origin,      \* history: how the store file at the path (or its absence) came about
    \* ---- guards of HistoryManager (history.rs) ----
    guards,      \* HistoryInner.guards: the lock registered for the connection id, or NoLock
    nextLock,    \* number of RwLock objects created so far
    lockHeld,    \* per lock: the set of <<process, mode>> holding it
    lockQueue,   \* per lock: the FIFO queue of waiting <<process, mode>>
    hop,         \* per process: the history call it is executing and where it stands
    \* ---- connection registry (mqtt/manager.rs) ----
    sessions,    \* MqttManager.sessions: connection id -> session, or NoSession
    nextSession, \* number of sessions created so far
    caller,      \* per caller task: the registry call it is executing and where it stands
    created,     \* history: per session, the connection id it was created for (or NoConn)
    shutdowns,   \* history: per session, how many times shutdown was issued for it
    retired,     \* history: per session, how its handle left the table ("no": it did not)
    inboxes,     \* per session: the commands forwarded to its inbox and not yet taken
    lastCall,    \* history: the registry call that returned last, with its result
    \* ---- one session (mqtt/session.rs) ----
    inbox,       \* command channel: commands accepted and not yet taken
    cmdTask,     \* state of the command loop task
    eventTask,   \* state of the event loop task
    batchTask,   \* state of the batch emitter task
    msgChan,     \* message channel from the event loop to the batch emitter
    buffer,      \* run_batch_emitter's buffer
    flushing,    \* the batch taken by a flush_batch in progress
    statusLog,   \* history: the status notifications emitted, in order, with their source
    arrived,     \* history: inbound messages in arrival order
    handed,      \* history: batches handed to HistoryManager::append_batch, in order
    republished, \* history: batches emitted as mqtt-message-batch, in order
    sessPhase,   \* the session handle: not built, live, consumed by shutdown, or dropped
    codec,       \* the rumqttc event loop: connection acknowledged, disconnect request queued
    accepted,    \* history: the commands accepted into the inbox, in order (see Entry)
    inFlight,    \* the commands whose client call has started and not returned
    executed,    \* history: the commands whose client call returned, with the result, in order
    settled,     \* history: the timer fired with nothing left to receive, and nothing arrived since
    heldAtShutdown, \* history: the messages in the emitter's buffer at the moment of
                 \* shutdown that have not been republished since
    persisted,   \* history: the batches append_batch committed to the store, in order
    \* ---- files of HistoryManager by path (history.rs) ----
    exportFile,  \* the file at the output path of the last export: NoFile or its lines
    stores,      \* per store path under the history root: the store file, or NoFile
    owned,       \* history: per connection id, the messages appended under that id
                 \* since the last clear or delete under that id
    assigned,    \* history: per store path, the (timestamp, id) pairs given to records
                 \* at that path so far, each with its record
    \* ---- publish requests (commands.rs) ----
    publisher,   \* per task running mqtt_publish: where its request stands
    outcomes,    \* history: the publish requests that returned, in order of return
    \* ---- the history root directory (history.rs) ----
    rootDir,     \* HistoryInner.root_dir of the running process: set or not
    rootFiles,   \* the files in the history root directory, by name
    live         \* history: per connection id, the messages appended under it and
                 \* not cleared or deleted since

storeVars    == <<db, leftover, txn, appended, reply, pager, origin>>
guardVars    == <<guards, nextLock, lockHeld, lockQueue, hop>>
registryVars == <<sessions, nextSession, caller, created, shutdowns, retired,
                  inboxes, lastCall>>
sessionVars  == <<inbox, cmdTask, eventTask, batchTask, msgChan, buffer, flushing,
                  statusLog, arrived, handed, republished, sessPhase, codec,
                  accepted, inFlight, executed, settled, heldAtShutdown, persisted>>
fileVars     == <<exportFile, stores, owned, assigned>>
publishVars  == <<publisher, outcomes>>
rootVars     == <<rootDir, rootFiles, live>>
vars == <<storeVars, guardVars, registryVars, sessionVars, fileVars, publishVars,
          rootVars>>

(***************************************************************************)
(* Bounds of the model.                                                    *)
(***************************************************************************)
MaxRows == 4        \* rows a stored table holds at most
MaxTs == 2          \* timestamps are drawn from 1..MaxTs
MaxBatch == 2       \* messages of one append_batch call at most
MaxAppended == 3    \* messages appended to one store file at most (SpecStore)
MaxArrived == 4     \* inbound publishes one session receives at most
MaxStatus == 4      \* status notifications one session emits at most
MaxInbox == 2       \* commands waiting in a session's inbox at most
MaxCommands == 2    \* subscribe / unsubscribe / publish commands one session accepts at most
\* session.rs:13 sets BATCH_MAX to 50; the model scales it down so that a flush
\* by size happens within MaxArrived messages and fewer messages can still be split.
BATCH_MAX == 3
\* history.rs:15 sets MAX_QUERY_LIMIT to 1000; the model scales it down so that
\* tables larger than the limit are reachable.
MAX_QUERY_LIMIT == 3

Min(a, b) == IF a < b THEN a ELSE b
Max(a, b) == IF a > b THEN a ELSE b

\* all sequences over S of length lo..hi
SeqsUpTo(S, lo, hi) == UNION {[1..n -> S] : n \in lo..hi}

Reverse(s) == [i \in 1..Len(s) |-> s[Len(s) + 1 - i]]

(***************************************************************************)
(* Messages and rows.                                                      *)
(***************************************************************************)
\* MqttBatchItem values of the model: both directions, both retain flags,
\* QoS 0..2, every timestamp of the bound.
MsgKinds ==
    { [topic |-> "a/b", payload |-> "1", qos |-> 0, retain |-> FALSE, direction |-> "In"],
      [topic |-> "a/b", payload |-> "2", qos |-> 2, retain |-> TRUE, direction |-> "Out"] }

Msgs ==
    { [topic |-> k.topic, payload |-> k.payload, qos |-> k.qos, retain |-> k.retain,
       direction |-> k.direction, timestamp |-> t] : k \in MsgKinds, t \in 1..MaxTs }

direction_to_int(direction) == IF direction = "Out" THEN 1 ELSE 0

\* the parameters insert_batch binds for one row, with the id SQLite assigns
RowOf(m, rowid) ==
    [ id |-> rowid, ts_ms |-> m.timestamp, topic |-> m.topic, payload |-> m.payload,
      qos |-> m.qos, retain |-> (IF m.retain THEN 1 ELSE 0),
      direction |-> direction_to_int(m.direction) ]

\* mutant: the direction column is decoded the wrong way round
row_to_record_DirectionSwapped(row) ==
    [ id |-> row.id, timestamp |-> row.ts_ms, topic |-> row.topic, payload |-> row.payload,
      qos |-> row.qos, retain |-> (row.retain = 1),
      direction |-> (IF row.direction = 1 THEN "In" ELSE "Out") ]

row_to_record(row) ==
    [ id |-> row.id, timestamp |-> row.ts_ms, topic |-> row.topic, payload |-> row.payload,
      qos |-> row.qos, retain |-> (row.retain = 1),
      direction |-> (IF row.direction = 1 THEN "Out" ELSE "In") ]

\* a record without its store-assigned id: the MessageEvent it carries
MsgOf(rec) ==
    [ topic |-> rec.topic, payload |-> rec.payload, qos |-> rec.qos, retain |-> rec.retain,
      direction |-> rec.direction, timestamp |-> rec.timestamp ]

(***************************************************************************)
(* The store file.                                                         *)
(***************************************************************************)
NoFile == [exists |-> FALSE]
\* the file init_schema leaves behind on a path that did not exist
EmptyDb == [exists |-> TRUE, rows |-> <<>>, seq |-> 0]

\* Connection::open creates the file, init_schema creates the table IF NOT EXISTS
open_rw_connection(file) == IF file.exists THEN file ELSE EmptyDb

\* (ts_ms, id) of a is before (ts_ms, id) of b
KeyLess(a, b) == a.ts_ms < b.ts_ms \/ (a.ts_ms = b.ts_ms /\ a.id < b.id)

\* ORDER BY ts_ms DESC, id DESC over a set of rows
RECURSIVE OrderDesc(_)
OrderDesc(S) ==
    IF S = {} THEN <<>>
    ELSE LET top == CHOOSE r \in S : \A o \in S \ {r} : KeyLess(o, r)
         IN  <<top>> \o OrderDesc(S \ {top})

FirstN(s, n) == SubSeq(s, 1, Min(n, Len(s)))

RowSet(file) == {file.rows[i] : i \in 1..Len(file.rows)}

MapRecords(rows) == [i \in 1..Len(rows) |-> row_to_record(rows[i])]

\* mutant: the lower clamp is missing
BoundedLimit_NoLower(limit) == Min(limit, MAX_QUERY_LIMIT)

\* usize::clamp(1, MAX_QUERY_LIMIT)
BoundedLimit(limit) == Max(1, Min(limit, MAX_QUERY_LIMIT))

query_latest_rows(file, limit) ==
    Reverse(MapRecords(FirstN(OrderDesc(RowSet(file)), limit)))

\* mutant: the cursor row itself and its same-millisecond successors are not excluded
query_before_rows_Inclusive(file, before_ts, before_id, limit) ==
    LET matching == { r \in RowSet(file) : r.ts_ms <= before_ts }
    IN  Reverse(MapRecords(FirstN(OrderDesc(matching), limit)))

\* mutant: the cursor compares the timestamp alone
query_before_rows_TsOnly(file, before_ts, before_id, limit) ==
    LET matching == { r \in RowSet(file) : r.ts_ms < before_ts }
    IN  Reverse(MapRecords(FirstN(OrderDesc(matching), limit)))

query_before_rows(file, before_ts, before_id, limit) ==
    LET matching == { r \in RowSet(file) :
                        (r.ts_ms < before_ts) \/ (r.ts_ms = before_ts /\ r.id < before_id) }
    IN  Reverse(MapRecords(FirstN(OrderDesc(matching), limit)))

\* HistoryManager::query_latest: empty when the file does not exist
query_latest(file, limit) ==
    IF ~file.exists THEN <<>> ELSE query_latest_rows(file, BoundedLimit(limit))

\* HistoryManager::query_before
query_before(file, before_ts, before_id, limit) ==
    IF ~file.exists THEN <<>>
    ELSE query_before_rows(file, before_ts, before_id, BoundedLimit(limit))

(***************************************************************************)
(* Export.  Text is a sequence of tokens: the characters that matter to    *)
(* the format (quote, comma, line feed) and to the file names, each as a   *)
(* one-character string, and the decimal numerals and fixed words the      *)
(* code writes.                                                            *)
(***************************************************************************)
Quote == "\""
Comma == ","
LineFeed == "\n"

\* Option<u64>
None == [some |-> FALSE]
Some(v) == [some |-> TRUE, v |-> v]

\* ORDER BY ts_ms ASC, id ASC over a set of rows
OrderAsc(S) == Reverse(OrderDesc(S))

\* mutant: the quotes inside the field are left single
escape_csv_NoDoubling(input) == <<Quote>> \o input \o <<Quote>>

\* input.replace('"', "\"\"")
RECURSIVE replace_quote(_)
replace_quote(input) ==
    IF input = <<>> THEN <<>>
    ELSE (IF Head(input) = Quote THEN <<Quote, Quote>> ELSE <<Head(input)>>)
             \o replace_quote(Tail(input))

\* escape_csv: format!("\"{escaped}\"")
escape_csv(input) == <<Quote>> \o replace_quote(input) \o <<Quote>>

\* format!("{}", n) of an integer: its decimal numeral
Display(n) == <<ToString(n)>>

\* the line written for one record by the csv branch
csv_line(record) ==
    Display(record.id) \o <<Comma>> \o Display(record.timestamp) \o <<Comma>>
        \o escape_csv(record.topic) \o <<Comma>> \o escape_csv(record.payload) \o <<Comma>>
        \o Display(record.qos) \o <<Comma>>
        \o Display(IF record.retain THEN 1 ELSE 0) \o <<Comma>>
        \o <<IF record.direction = "Out" THEN "out" ELSE "in">>
        \o <<LineFeed>>

\* b"id,timestamp,topic,payload,qos,retain,direction\n"
csv_header ==
    <<"id", Comma, "timestamp", Comma, "topic", Comma, "payload", Comma,
      "qos", Comma, "retain", Comma, "direction", LineFeed>>

\* the line written for one record otherwise: serde_json::to_string(&record),
\* kept as the object it serialises, and a line feed
ndjson_line(record) == <<[json |-> record], LineFeed>>

\* format.eq_ignore_ascii_case("csv"), on the spellings the model draws
eq_ignore_ascii_case_csv(format) == format \in {"csv", "CSV"}

\* mutant: the upper bound is exclusive
export_rows_ExclusiveTo(file, format, from_ts, to_ts) ==
    IF ~file.exists
    THEN [result |-> "err", count |-> 0, out |-> NoFile]
    ELSE LET matching == { r \in RowSet(file) :
                             /\ (from_ts.some => r.ts_ms >= from_ts.v)
                             /\ (to_ts.some => r.ts_ms < to_ts.v) }
             records == MapRecords(OrderAsc(matching))
             is_csv == eq_ignore_ascii_case_csv(format)
             lines == [i \in 1..Len(records) |->
                          IF is_csv THEN csv_line(records[i]) ELSE ndjson_line(records[i])]
         IN  [result |-> "ok", count |-> Len(records),
              out |-> [exists |-> TRUE,
                       lines |-> (IF is_csv THEN <<csv_header>> ELSE <<>>) \o lines]]

\* export_rows: open_ro_connection fails on a missing file before the output
\* file is created; otherwise the header (csv), one line per selected row in
\* ascending order, and the count of the lines
export_rows(file, format, from_ts, to_ts) ==
    IF ~file.exists
    THEN [result |-> "err", count |-> 0, out |-> NoFile]
    ELSE LET matching == { r \in RowSet(file) :
                             /\ (from_ts.some => r.ts_ms >= from_ts.v)
                             /\ (to_ts.some => r.ts_ms <= to_ts.v) }
             records == MapRecords(OrderAsc(matching))
             is_csv == eq_ignore_ascii_case_csv(format)
             lines == [i \in 1..Len(records) |->
                          IF is_csv THEN csv_line(records[i]) ELSE ndjson_line(records[i])]
         IN  [result |-> "ok", count |-> Len(records),
              out |-> [exists |-> TRUE,
                       lines |-> (IF is_csv THEN <<csv_header>> ELSE <<>>) \o lines]]

\* HistoryManager::export_connection: an error when the file does not exist
export_connection(file, format, from_ts, to_ts) ==
    IF ~file.exists
    THEN [result |-> "err", count |-> 0, out |-> NoFile]
    ELSE export_rows(file, format, from_ts, to_ts)

(***************************************************************************)
(* Store paths.                                                            *)
(***************************************************************************)
AsciiAlphanumeric ==
    {"a", "b", "c", "d", "e", "f", "g", "h", "i", "j", "k", "l", "m",
     "n", "o", "p", "q", "r", "s", "t", "u", "v", "w", "x", "y", "z",
     "A", "B", "C", "D", "E", "F", "G", "H", "I", "J", "K", "L", "M",
     "N", "O", "P", "Q", "R", "S", "T", "U", "V", "W", "X", "Y", "Z",
     "0", "1", "2", "3", "4", "5", "6", "7", "8", "9"}

\* safe_connection_id: every character that is not alphanumeric, '-' or '_'
\* becomes '_'; an empty result becomes "connection"
safe_connection_id(raw) ==
    LET out == [i \in 1..Len(raw) |->
                   IF raw[i] \in AsciiAlphanumeric \/ raw[i] = "-" \/ raw[i] = "_"
                   THEN raw[i] ELSE "_"]
    IN  IF out = <<>> THEN <<"c", "o", "n", "n", "e", "c", "t", "i", "o", "n">> ELSE out

\* HistoryManager::db_path: root.join(format!("{}.db", safe_connection_id(id)))
db_path(connection_id) == safe_connection_id(connection_id) \o <<".db">>

\* the connection ids of SpecPaths, as the caller passes them
RawIds == { <<"a", "/", "b">>, <<"a", "_", "b">>, <<"c">> }

StorePaths == {db_path(id) : id \in RawIds}

(***************************************************************************)
(* Values of the parts at rest.  Every specification starts the parts it   *)
(* does not exercise from these and never changes them.                    *)
(***************************************************************************)
NoTxn == [open |-> FALSE]
NoReply == [op |-> "none"]
PagerIdle == [active |-> FALSE]

StoreAtRest ==
    /\ db = NoFile
    /\ leftover = FALSE
    /\ txn = NoTxn
    /\ appended = <<>>
    /\ reply = NoReply
    /\ pager = PagerIdle
    /\ origin = "new"

FilesAtRest ==
    /\ exportFile = NoFile
    /\ stores = [path \in StorePaths |-> NoFile]
    /\ owned = [id \in RawIds |-> <<>>]
    /\ assigned = [path \in StorePaths |-> {}]

NumPublishers == 2  \* tasks running mqtt_publish at the same time
MaxPublishes == 3   \* publish requests made at most (SpecPublish)
Publishers == 1..NumPublishers
PublisherIdle == [pc |-> "idle"]

PublishAtRest ==
    /\ publisher = [p \in Publishers |-> PublisherIdle]
    /\ outcomes = <<>>

\* the connection ids of SpecRoot: a plain one, and one that spells the name of
\* a renamed-away file of the plain one
RootIds == { <<"c">>,
             <<"c", ".db", ".", "d", "e", "l", "e", "t", "i", "n", "g", ".", "1">> }

RootAtRest ==
    /\ rootDir = FALSE
    /\ rootFiles = << >>
    /\ live = [id \in RootIds |-> <<>>]

NumProcs == 2       \* tasks calling into HistoryManager at the same time
MaxLocks == 2       \* RwLock objects guard_for creates at most
HProcs == 1..NumProcs
LockIds == 1..MaxLocks
NoLock == 0
HIdle == [pc |-> "idle"]

GuardAtRest ==
    /\ guards = NoLock
    /\ nextLock = 0
    /\ lockHeld = [l \in LockIds |-> {}]
    /\ lockQueue = [l \in LockIds |-> <<>>]
    /\ hop = [p \in HProcs |-> HIdle]

NumCallers == 2     \* tasks calling into MqttManager at the same time
MaxSessions == 2    \* sessions start_session creates at most
MaxQueued == 1      \* forwarded commands waiting in all the inboxes at most (SpecRegistry)
ConnIds == {"c1", "c2"}
Callers == 1..NumCallers
SessIds == 1..MaxSessions
NoSession == 0
NoConn == "none"
CallerIdle == [pc |-> "idle"]
NoCall == [op |-> "none", turn |-> 0]
\* the commands of MqttManager::subscribe / unsubscribe / publish
RequestKinds == {"Subscribe", "Unsubscribe", "Publish"}

RegistryAtRest ==
    /\ sessions = [c \in ConnIds |-> NoSession]
    /\ nextSession = 0
    /\ caller = [k \in Callers |-> CallerIdle]
    /\ created = [s \in SessIds |-> NoConn]
    /\ shutdowns = [s \in SessIds |-> 0]
    /\ retired = [s \in SessIds |-> "no"]
    /\ inboxes = [s \in SessIds |-> <<>>]
    /\ lastCall = NoCall

CodecIdle == [acked |-> FALSE, request |-> FALSE]

SessionAtRest ==
    /\ inbox = <<>>
    /\ cmdTask = "none"
    /\ eventTask = "none"
    /\ batchTask = "none"
    /\ msgChan = <<>>
    /\ buffer = <<>>
    /\ flushing = <<>>
    /\ statusLog = <<>>
    /\ arrived = <<>>
    /\ handed = <<>>
    /\ republished = <<>>
    /\ sessPhase = "none"
    /\ codec = CodecIdle
    /\ accepted = <<>>
    /\ inFlight = {}
    /\ executed = <<>>
    /\ settled = FALSE
    /\ heldAtShutdown = <<>>
    /\ persisted = <<>>

(***************************************************************************)
(* SpecQuery: query_latest, query_before and a paging client over an       *)
(* arbitrary stored table.                                                 *)
(***************************************************************************)
\* Tables the store can hold: ids 1..n in insertion order (AUTOINCREMENT),
\* any timestamp per row (now_millis is read before the row is inserted).
TableOf(ms) ==
    [exists |-> TRUE, rows |-> [i \in 1..Len(ms) |-> RowOf(ms[i], i)], seq |-> Len(ms)]

StoredContents == SeqsUpTo({m \in Msgs : m.payload = "1"}, 0, MaxRows)

Limits == 0..(MAX_QUERY_LIMIT + 1)
CursorTs == 0..(MaxTs + 1)
CursorIds == 0..(MaxRows + 1)

\* The client of SpecQuery has one call outstanding at a time: it issues a
\* query, takes the reply, and either issues the next one or starts a paging pass.
ClientReady == reply = NoReply /\ ~pager.active

QueryLatest(limit) ==
    /\ ClientReady
    /\ reply' = [op |-> "query_latest", limit |-> limit, rows |-> query_latest(db, limit)]
    /\ UNCHANGED <<db, leftover, txn, appended, pager, origin>>

QueryBefore(before_ts, before_id, limit) ==
    /\ ClientReady
    /\ reply' = [op |-> "query_before", limit |-> limit, ts |-> before_ts, id |-> before_id,
                 rows |-> query_before(db, before_ts, before_id, limit)]
    /\ UNCHANGED <<db, leftover, txn, appended, pager, origin>>

\* The record of a page whose (timestamp, id) the client passes as the next
\* cursor: a page is ordered oldest to newest, so its first record is the
\* oldest and its last record the newest.
PageCursor(page, pick) == IF pick = "first" THEN page[1] ELSE page[Len(page)]

TakeReply ==
    /\ reply # NoReply
    /\ reply' = NoReply
    /\ UNCHANGED <<db, leftover, txn, appended, pager, origin>>

\* the first page of a pass; stored is history: the records the store held when
\* the pass started
PagerStart(limit, pick) ==
    /\ ClientReady
    /\ LET page == query_latest(db, limit)
       IN  pager' = [active |-> TRUE, limit |-> limit, pick |-> pick, page |-> page,
                     seen |-> page, pages |-> 1, done |-> (page = <<>>),
                     stored |-> IF db.exists THEN {row_to_record(r) : r \in RowSet(db)}
                                ELSE {}]
    /\ UNCHANGED <<db, leftover, txn, appended, reply, origin>>

\* mutant: the next page is taken by offset, skipping as many of the newest
\* records as the pass has returned
PagerNext_ByOffset ==
    /\ pager.active
    /\ ~pager.done
    /\ LET newest == OrderDesc(RowSet(db))
           skip == Len(pager.seen)
           page == Reverse(MapRecords(SubSeq(newest, skip + 1,
                              Min(Len(newest), skip + BoundedLimit(pager.limit)))))
       IN  pager' = [pager EXCEPT !.page = page, !.seen = pager.seen \o page,
                                  !.pages = pager.pages + 1, !.done = (page = <<>>)]
    /\ UNCHANGED <<db, leftover, txn, appended, reply, origin>>

PagerNext ==
    /\ pager.active
    /\ ~pager.done
    /\ LET cur == PageCursor(pager.page, pager.pick)
           page == query_before(db, cur.timestamp, cur.id, pager.limit)
       IN  pager' = [pager EXCEPT !.page = page, !.seen = pager.seen \o page,
                                  !.pages = pager.pages + 1, !.done = (page = <<>>)]
    /\ UNCHANGED <<db, leftover, txn, appended, reply, origin>>

PagerReset ==
    /\ pager.active
    /\ pager.done
    /\ pager' = PagerIdle
    /\ UNCHANGED <<db, leftover, txn, appended, reply, origin>>

InitQuery ==
    /\ \/ db = NoFile /\ appended = <<>>
       \/ \E ms \in StoredContents : db = TableOf(ms) /\ appended = ms
    /\ leftover = FALSE
    /\ txn = NoTxn
    /\ reply = NoReply
    /\ pager = PagerIdle
    /\ origin = "new"
    /\ GuardAtRest
    /\ RegistryAtRest
    /\ SessionAtRest
    /\ FilesAtRest
    /\ PublishAtRest
    /\ RootAtRest

NextQuery ==
    \/ (\E limit \in Limits : QueryLatest(limit))
         /\ UNCHANGED <<guardVars, registryVars, sessionVars, fileVars, publishVars, rootVars>>
    \/ (\E before_ts \in CursorTs, before_id \in CursorIds, limit \in Limits :
            QueryBefore(before_ts, before_id, limit))
         /\ UNCHANGED <<guardVars, registryVars, sessionVars, fileVars, publishVars, rootVars>>
    \/ (\E limit \in Limits, pick \in {"first", "last"} : PagerStart(limit, pick))
         /\ UNCHANGED <<guardVars, registryVars, sessionVars, fileVars, publishVars, rootVars>>
    \/ TakeReply /\ UNCHANGED <<guardVars, registryVars, sessionVars, fileVars, publishVars, rootVars>>
    \/ PagerNext /\ UNCHANGED <<guardVars, registryVars, sessionVars, fileVars, publishVars, rootVars>>
    \/ PagerReset /\ UNCHANGED <<guardVars, registryVars, sessionVars, fileVars, publishVars, rootVars>>

SpecQuery == InitQuery /\ [][NextQuery]_vars

(***************************************************************************)
(* Claims about the queries (SpecQuery).                                   *)
(***************************************************************************)
StoredRecords == IF db.exists THEN {row_to_record(r) : r \in RowSet(db)} ELSE {}

\* record a is older than record b in the total order (timestamp, id)
RecLess(a, b) == a.timestamp < b.timestamp \/ (a.timestamp = b.timestamp /\ a.id < b.id)

Ascending(rows) == \A i \in 1..(Len(rows) - 1) : RecLess(rows[i], rows[i + 1])

Range(s) == {s[i] : i \in 1..Len(s)}

\* clamp(limit, 1, MAX_QUERY_LIMIT) as the claims state it
ClampedLimit(limit) ==
    IF limit < 1 THEN 1 ELSE IF limit > MAX_QUERY_LIMIT THEN MAX_QUERY_LIMIT ELSE limit

\* rows is the page of the `limit` greatest records of `among`, oldest first
IsGreatestPage(rows, among, limit) ==
    /\ Len(rows) = Min(ClampedLimit(limit), Cardinality(among))
    /\ Range(rows) \subseteq among
    /\ Ascending(rows)
    /\ \A o \in among \ Range(rows), r \in Range(rows) : RecLess(o, r)

\* the paging pass returned every stored record exactly once
CoveredExactlyOnce ==
    /\ Len(pager.seen) = Cardinality(StoredRecords)
    /\ Range(pager.seen) = StoredRecords

\* C7 (as stated): paging with the (timestamp, id) of the last record of each
\* returned page as the cursor covers every record exactly once.
C7_AsStated_LastRecordCursor ==
    (pager.active /\ pager.pick = "last" /\ pager.done) => CoveredExactlyOnce

\* C7 (amended): paging with the (timestamp, id) of the first (oldest) record of
\* each returned page as the cursor never returns a record twice, returns only
\* stored records, and has covered every record exactly once when the first
\* empty page ends the pass, for every page limit and every multiset of timestamps.
C7_PagingFromOldestCoversExactlyOnce ==
    (pager.active /\ pager.pick = "first") =>
        /\ Len(pager.seen) = Cardinality(Range(pager.seen))
        /\ Range(pager.seen) \subseteq StoredRecords
        /\ pager.done => CoveredExactlyOnce

\* a finished pass of at least three non-empty pages over a full table whose
\* records all carry the same timestamp
C7_Witness ==
    /\ pager.active /\ pager.pick = "first" /\ pager.done
    /\ pager.pages >= 4
    /\ Cardinality(StoredRecords) = MaxRows
    /\ \A a, b \in StoredRecords : a.timestamp = b.timestamp

C9_QueryLatestGreatestPage ==
    reply.op = "query_latest" => IsGreatestPage(reply.rows, StoredRecords, reply.limit)

\* a limit above the maximum over a table larger than the maximum, with two
\* records of one timestamp
C9_Witness ==
    /\ reply.op = "query_latest"
    /\ reply.limit > MAX_QUERY_LIMIT
    /\ Cardinality(StoredRecords) > MAX_QUERY_LIMIT
    /\ Len(reply.rows) = MAX_QUERY_LIMIT
    /\ \E a, b \in Range(reply.rows) : a # b /\ a.timestamp = b.timestamp

(***************************************************************************)
(* SpecStore: append_batch (as the transaction of insert_batch),           *)
(* clear_connection, delete_connection and query_latest on one store.      *)
(***************************************************************************)
Batches == SeqsUpTo(Msgs, 1, MaxBatch)

\* mutant: the rows are inserted outside a transaction, each one committed by itself
insert_row_Autocommit(file, t) ==
    [ file |-> [file EXCEPT !.rows = Append(file.rows, RowOf(Head(t.todo), file.seq + 1)),
                            !.seq = file.seq + 1],
      txn |-> [t EXCEPT !.todo = Tail(t.todo)] ]

\* insert_batch, one stmt.execute inside the transaction: the row gets the next
\* AUTOINCREMENT id and stays invisible to other connections until the commit
insert_row(file, t) ==
    [ file |-> file,
      txn |-> [t EXCEPT !.rows = Append(t.rows, RowOf(Head(t.todo), t.base + Len(t.rows) + 1)),
                        !.todo = Tail(t.todo)] ]

\* insert_batch, tx.commit(): the rows of the transaction become visible together
tx_commit(file, t) ==
    [file EXCEPT !.rows = file.rows \o t.rows, !.seq = file.seq + Len(t.rows)]

\* mutant: the live file is not rotated away, only reopened
clear_db_file_NoRotate(file, fault) ==
    IF fault = "open" THEN [file |-> file, left |-> FALSE, result |-> "err"]
    ELSE [file |-> open_rw_connection(file), left |-> FALSE, result |-> "ok"]

\* clear_db_file under an I/O fault at one of its steps ("none": no fault):
\* the file at the path afterwards, the renamed-away files it leaves, its result
clear_db_file(file, fault) ==
    IF ~file.exists
    THEN IF fault = "open"
         THEN [file |-> file, left |-> FALSE, result |-> "err"]
         ELSE [file |-> open_rw_connection(file), left |-> FALSE, result |-> "ok"]
    ELSE CASE fault = "rename" -> [file |-> file, left |-> FALSE, result |-> "err"]
           [] fault = "open"   -> [file |-> NoFile, left |-> TRUE, result |-> "err"]
           [] fault = "remove" -> [file |-> open_rw_connection(NoFile), left |-> TRUE, result |-> "ok"]
           [] OTHER            -> [file |-> open_rw_connection(NoFile), left |-> FALSE, result |-> "ok"]

\* mutant: the removed store is recreated empty, as clear does
delete_db_file_Recreates(file, fault) ==
    IF ~file.exists
    THEN [file |-> file, left |-> FALSE, result |-> "ok"]
    ELSE CASE fault = "rename" -> [file |-> file, left |-> FALSE, result |-> "err"]
           [] fault = "remove" -> [file |-> open_rw_connection(NoFile), left |-> TRUE, result |-> "ok"]
           [] OTHER            -> [file |-> open_rw_connection(NoFile), left |-> FALSE, result |-> "ok"]

\* guard_for as SpecStore follows it: afterwards a lock is registered for the id
\* (which lock, and who holds it, is followed in SpecGuard).  query_latest calls
\* guard_for only when the file exists, and then a lock is registered already
\* (GuardRegisteredWithStore), so the queries leave guards as it is.
Registered == IF guards = NoLock THEN 1 ELSE guards

\* delete_db_file under an I/O fault at one of its steps
delete_db_file(file, fault) ==
    IF ~file.exists
    THEN [file |-> file, left |-> FALSE, result |-> "ok"]
    ELSE CASE fault = "rename" -> [file |-> file, left |-> FALSE, result |-> "err"]
           [] fault = "remove" -> [file |-> NoFile, left |-> TRUE, result |-> "ok"]
           [] OTHER            -> [file |-> NoFile, left |-> FALSE, result |-> "ok"]

Faults == {"none", "rename", "open", "remove"}

\* append_batch with empty input: returns Ok before touching anything
AppendEmpty ==
    /\ ClientReady
    /\ reply' = [op |-> "append", result |-> "ok", n |-> 0]
    /\ UNCHANGED <<db, leftover, txn, appended, pager, origin>>

\* append_batch, insert_batch up to conn.transaction(): open_rw_connection creates
\* the file and its schema when the path is empty
AppendBegin(messages) ==
    /\ ClientReady
    /\ ~txn.open
    /\ Len(appended) + Len(messages) <= MaxAppended
    /\ guards' = Registered
    /\ db' = open_rw_connection(db)
    /\ txn' = [open |-> TRUE, batch |-> messages, todo |-> messages, rows |-> <<>>,
               base |-> db'.seq, orphan |-> FALSE]
    /\ UNCHANGED <<leftover, appended, reply, pager, origin>>

\* append_batch fails in open_rw_connection: nothing is written
AppendOpenFails ==
    /\ ClientReady
    /\ ~txn.open
    /\ guards' = Registered
    /\ reply' = [op |-> "append", result |-> "err", n |-> 0]
    /\ UNCHANGED <<db, leftover, txn, appended, pager, origin>>

TxExecute ==
    /\ txn.open
    /\ txn.todo # <<>>
    /\ LET next == insert_row(db, txn)
       IN  /\ txn' = next.txn
           /\ db' = IF txn.orphan THEN db ELSE next.file
    /\ UNCHANGED <<leftover, appended, reply, pager, origin>>

\* stmt.execute or tx.commit fails: the transaction is dropped, which rolls it back
TxFail ==
    /\ txn.open
    /\ reply = NoReply
    /\ txn' = NoTxn
    /\ reply' = [op |-> "append", result |-> "err", n |-> 0]
    /\ UNCHANGED <<db, leftover, appended, pager, origin>>

\* tx.commit(); a transaction whose file was renamed away commits into that file
TxCommit ==
    /\ txn.open
    /\ txn.todo = <<>>
    /\ reply = NoReply
    /\ db' = IF txn.orphan THEN db ELSE tx_commit(db, txn)
    /\ appended' = IF txn.orphan THEN appended ELSE appended \o txn.batch
    /\ txn' = NoTxn
    /\ reply' = [op |-> "append", result |-> "ok", n |-> Len(txn.batch)]
    /\ UNCHANGED <<leftover, pager, origin>>

\* a transaction in progress stays with the file it opened
Orphaned(t, before, after) ==
    IF t.open /\ before.exists /\ after # before THEN [t EXCEPT !.orphan = TRUE] ELSE t

ClearConnection(fault) ==
    /\ ClientReady
    /\ guards' = Registered
    /\ LET out == clear_db_file(db, fault)
       IN  /\ db' = out.file
           /\ leftover' = (leftover \/ out.left)
           /\ txn' = Orphaned(txn, db, out.file)
           /\ appended' = IF out.file = db THEN appended ELSE <<>>
           /\ origin' = IF out.file = db THEN origin
                        ELSE IF out.result = "ok" THEN "cleared" ELSE "rotated"
           /\ reply' = [op |-> "clear", result |-> out.result, n |-> Len(appended)]
    /\ UNCHANGED pager

DeleteConnection(fault) ==
    /\ ClientReady
    /\ LET out == delete_db_file(db, fault)
       IN  /\ db' = out.file
           /\ leftover' = (leftover \/ out.left)
           /\ txn' = Orphaned(txn, db, out.file)
           /\ appended' = IF out.file = db THEN appended ELSE <<>>
           /\ origin' = IF out.result = "ok" THEN "deleted" ELSE origin
           /\ guards' = IF out.result = "ok" THEN NoLock ELSE Registered
           /\ reply' = [op |-> "delete", result |-> out.result, n |-> Len(appended)]
    /\ UNCHANGED pager

\* cleanup_deleting_files or the operating system removes a renamed-away file
LeftoverRemoved ==
    /\ leftover
    /\ leftover' = FALSE
    /\ UNCHANGED <<db, txn, appended, reply, pager, origin>>

InitStore ==
    /\ StoreAtRest
    /\ GuardAtRest
    /\ RegistryAtRest
    /\ SessionAtRest
    /\ FilesAtRest
    /\ PublishAtRest
    /\ RootAtRest

NextStore ==
    \/ AppendEmpty /\ UNCHANGED <<guardVars, registryVars, sessionVars, fileVars, publishVars, rootVars>>
    \/ (\E messages \in Batches : AppendBegin(messages))
         /\ UNCHANGED <<nextLock, lockHeld, lockQueue, hop, registryVars, sessionVars, fileVars, publishVars, rootVars>>
    \/ AppendOpenFails /\ UNCHANGED <<nextLock, lockHeld, lockQueue, hop, registryVars, sessionVars, fileVars, publishVars, rootVars>>
    \/ TxExecute /\ UNCHANGED <<guardVars, registryVars, sessionVars, fileVars, publishVars, rootVars>>
    \/ TxFail /\ UNCHANGED <<guardVars, registryVars, sessionVars, fileVars, publishVars, rootVars>>
    \/ TxCommit /\ UNCHANGED <<guardVars, registryVars, sessionVars, fileVars, publishVars, rootVars>>
    \/ (\E fault \in Faults : ClearConnection(fault))
         /\ UNCHANGED <<nextLock, lockHeld, lockQueue, hop, registryVars, sessionVars, fileVars, publishVars, rootVars>>
    \/ (\E fault \in Faults : DeleteConnection(fault))
         /\ UNCHANGED <<nextLock, lockHeld, lockQueue, hop, registryVars, sessionVars, fileVars, publishVars, rootVars>>
    \/ LeftoverRemoved /\ UNCHANGED <<guardVars, registryVars, sessionVars, fileVars, publishVars, rootVars>>
    \/ (\E limit \in Limits : QueryLatest(limit))
         /\ UNCHANGED <<guardVars, registryVars, sessionVars, fileVars, publishVars, rootVars>>
    \/ TakeReply /\ UNCHANGED <<guardVars, registryVars, sessionVars, fileVars, publishVars, rootVars>>

SpecStore == InitStore /\ [][NextStore]_vars

\* in SpecStore a store file at the path was opened through guard_for
GuardRegisteredWithStore == db.exists => guards # NoLock

(***************************************************************************)
(* Claims about the store (SpecStore).                                     *)
(***************************************************************************)
\* the rows a read-only connection sees at the path
Visible == IF db.exists THEN db.rows ELSE <<>>

\* the record a message appended as the i-th row of a store file is read back as
RecordOf(m, i) ==
    [ id |-> i, timestamp |-> m.timestamp, topic |-> m.topic, payload |-> m.payload,
      qos |-> m.qos, retain |-> m.retain, direction |-> m.direction ]

\* the visible rows are exactly the rows of the committed batches, whole batches
\* only, in input order, with increasing ids
WholeBatchesVisible ==
    /\ Len(Visible) = Len(appended)
    /\ \A i \in 1..Len(Visible) :
          /\ Visible[i].id = i
          /\ MsgOf(row_to_record(Visible[i])) = appended[i]
    /\ reply.op = "query_latest" =>
          \A r \in Range(reply.rows) : r.id \in 1..Len(appended) /\ MsgOf(r) = appended[r.id]

\* an append_batch call returns: with empty input or on failure the store file is
\* as before; on success of a transaction on the live file its rows follow the
\* rows stored before, in input order
AppendReturns ==
    (reply.op = "none" /\ reply'.op = "append") =>
        /\ (reply'.n = 0) => (db' = db /\ appended' = appended)
        /\ (reply'.n > 0 /\ ~txn.orphan) =>
              /\ Len(db'.rows) = Len(db.rows) + reply'.n
              /\ SubSeq(db'.rows, 1, Len(db.rows)) = db.rows
              /\ \A k \in 1..reply'.n :
                    LET row == db'.rows[Len(db.rows) + k]
                    IN  /\ MsgOf(row_to_record(row)) = txn.batch[k]
                        /\ row.id = db.seq + k

\* C5: append is all-or-nothing: empty input changes nothing; otherwise all rows
\* of the batch become visible together, in input order with increasing ids, or
\* (on failure) none does; no reader observes part of a batch.
C5_AppendAllOrNothing == []WholeBatchesVisible /\ [][AppendReturns]_vars

\* a reader is answered while a transaction has inserted one row of its batch
\* and not yet the next
C5_Witness ==
    /\ txn.open /\ ~txn.orphan
    /\ Len(txn.rows) >= 1 /\ txn.todo # <<>>
    /\ Len(appended) >= 1
    /\ reply.op = "query_latest"
    /\ Len(reply.rows) = Len(appended)

\* a clear_connection call returns Ok: the path holds a store as newly created,
\* and every query on it is empty
ClearReturnsOk ==
    (reply.op = "none" /\ reply'.op = "clear" /\ reply'.result = "ok") =>
        /\ db' = open_rw_connection(NoFile)
        /\ \A limit \in Limits : query_latest(db', limit) = <<>>
        /\ \A ts \in CursorTs, id \in CursorIds, limit \in Limits :
              query_before(db', ts, id, limit) = <<>>

\* after a clear, query_latest answers as on a newly created store that received
\* the appends made since
FreshAfterClear ==
    (origin = "cleared" /\ reply.op = "query_latest") =>
        /\ \A r \in Range(reply.rows) :
              r.id \in 1..Len(appended) /\ r = RecordOf(appended[r.id], r.id)
        /\ Len(reply.rows) = Min(ClampedLimit(reply.limit), Len(appended))
        /\ Ascending(reply.rows)

\* C6: after clear(id) completes no record appended before it is returned again;
\* appends after the clear are stored, and clear; append(ms); queryLatest returns
\* exactly ms as on a newly created store (also when there was no store, or after
\* two clears in a row).
C6_ClearResetsStore == [][ClearReturnsOk]_vars /\ []FreshAfterClear

\* query_latest returns the two records appended after a clear
C6_Witness ==
    /\ origin = "cleared"
    /\ reply.op = "query_latest"
    /\ Len(appended) = 2
    /\ Len(reply.rows) = 2

\* C10: round trip: after appends totalling at most MAX_QUERY_LIMIT records on a
\* fresh store, query_latest with a limit at least that large returns exactly the
\* appended records (all fields), each once, ordered by (timestamp, id).
C10_AppendQueryRoundTrip ==
    (reply.op = "query_latest" /\ Len(appended) <= MAX_QUERY_LIMIT
        /\ reply.limit >= Len(appended)) =>
        /\ Len(reply.rows) = Len(appended)
        /\ Ascending(reply.rows)
        /\ \A i \in 1..Len(appended) :
              \E j \in 1..Len(reply.rows) : reply.rows[j] = RecordOf(appended[i], i)

\* three records of both directions read back in an order that differs from
\* the insertion order
C10_Witness ==
    /\ reply.op = "query_latest"
    /\ Len(appended) = 3
    /\ Len(reply.rows) = 3
    /\ reply.rows[1].id > reply.rows[2].id
    /\ \E a, b \in Range(reply.rows) : a.direction = "In" /\ b.direction = "Out" /\ b.retain

(***************************************************************************)
(* SpecGuard: the calls of HistoryManager on one connection id, run by     *)
(* concurrent tasks, at the grain of guard_for, the RwLock and the         *)
(* spawn_blocking closure that does the file operations.  Of the store     *)
(* file only its existence is followed here.                               *)
(***************************************************************************)
ReadOps == {"query_latest", "query_before", "export_connection"}
AppendOps == {"append_batch", "append_outgoing"}
DestructiveOps == {"clear_connection", "delete_connection"}
HistoryOps == ReadOps \cup AppendOps \cup DestructiveOps

\* the lock mode the call asks for: guard.read() or guard.write()
ModeOf(op) == IF op \in DestructiveOps THEN "w" ELSE "r"

Holders(l) == {h[1] : h \in lockHeld[l]}
WriteHeld(l) == \E h \in lockHeld[l] : h[2] = "w"

\* tokio::sync::RwLock: readers share, a writer is alone
Compatible(l, mode) ==
    IF mode = "w" THEN lockHeld[l] = {} ELSE ~WriteHeld(l)

\* query_latest / query_before / export_connection return before guard_for when
\* the file does not exist; the other calls go on to guard_for
ReturnsEarly(op) == op \in ReadOps /\ ~db.exists

\* the call up to and including guard_for: the registered lock, or a new one
\* registered under the id
HCall(p, op) ==
    /\ hop[p].pc = "idle"
    /\ ~ReturnsEarly(op)
    /\ IF guards # NoLock
       THEN /\ hop' = [hop EXCEPT ![p] = [pc |-> "acquire", op |-> op, lock |-> guards]]
            /\ UNCHANGED <<guards, nextLock>>
       ELSE /\ nextLock < MaxLocks
            /\ nextLock' = nextLock + 1
            /\ guards' = nextLock + 1
            /\ hop' = [hop EXCEPT ![p] = [pc |-> "acquire", op |-> op, lock |-> nextLock + 1]]
    /\ UNCHANGED <<lockHeld, lockQueue, db, leftover>>

\* a read call on a connection without store file returns at once
HCallNoFile(p, op) ==
    /\ hop[p].pc = "idle"
    /\ ReturnsEarly(op)
    /\ UNCHANGED <<guardVars, db, leftover>>

\* guard.read().await / guard.write().await, first poll: the lock is taken when
\* it is free for the mode and nobody waits, otherwise the task joins the queue
HAcquire(p) ==
    /\ hop[p].pc = "acquire"
    /\ LET l == hop[p].lock
           mode == ModeOf(hop[p].op)
       IN  IF lockQueue[l] = <<>> /\ Compatible(l, mode)
           THEN /\ lockHeld' = [lockHeld EXCEPT ![l] = @ \cup {<<p, mode>>}]
                /\ hop' = [hop EXCEPT ![p].pc = "blocking"]
                /\ UNCHANGED lockQueue
           ELSE /\ lockQueue' = [lockQueue EXCEPT ![l] = Append(@, <<p, mode>>)]
                /\ hop' = [hop EXCEPT ![p].pc = "queued"]
                /\ UNCHANGED lockHeld
    /\ UNCHANGED <<guards, nextLock, db, leftover>>

\* the lock passes to the head of its queue
HGrant(l) ==
    /\ lockQueue[l] # <<>>
    /\ LET head == Head(lockQueue[l])
       IN  /\ Compatible(l, head[2])
           /\ lockHeld' = [lockHeld EXCEPT ![l] = @ \cup {head}]
           /\ hop' = [hop EXCEPT ![head[1]].pc = "blocking"]
    /\ lockQueue' = [lockQueue EXCEPT ![l] = Tail(@)]
    /\ UNCHANGED <<guards, nextLock, db, leftover>>

\* the file the closure leaves at the path, the renamed-away file it leaves, its result
FileOp(op, file, fault) ==
    CASE op = "clear_connection"  -> clear_db_file(file, fault)
      [] op = "delete_connection" -> delete_db_file(file, fault)
      [] op \in AppendOps ->
            IF fault = "open" THEN [file |-> file, left |-> FALSE, result |-> "err"]
            ELSE [file |-> open_rw_connection(file), left |-> FALSE, result |-> "ok"]
      [] OTHER ->
            [file |-> file, left |-> FALSE, result |-> IF file.exists THEN "ok" ELSE "err"]

\* the spawn_blocking closure of the call runs to its end
HFileOpDone(p, fault) ==
    /\ hop[p].pc \in {"blocking", "detached"}
    /\ LET out == FileOp(hop[p].op, db, fault)
       IN  /\ db' = out.file
           /\ leftover' = (leftover \/ out.left)
           /\ hop' = [hop EXCEPT ![p] =
                        IF hop[p].pc = "detached" THEN HIdle
                        ELSE [pc |-> "finish", op |-> hop[p].op, lock |-> hop[p].lock,
                              result |-> out.result]]
    /\ UNCHANGED <<guards, nextLock, lockHeld, lockQueue>>

\* the call returns: delete_connection that succeeded removes the id's entry
\* from the guards table; the guard is dropped
HFinish(p) ==
    /\ hop[p].pc = "finish"
    /\ guards' = IF hop[p].op = "delete_connection" /\ hop[p].result = "ok"
                 THEN NoLock ELSE guards
    /\ lockHeld' = [lockHeld EXCEPT ![hop[p].lock] = {h \in @ : h[1] # p}]
    /\ hop' = [hop EXCEPT ![p] = HIdle]
    /\ UNCHANGED <<nextLock, lockQueue, db, leftover>>

\* batch_task.abort() while flush_batch awaits append_batch: the future is
\* dropped with its guard; a closure already handed to the blocking pool runs on
HAbort(p) ==
    /\ hop[p].pc \in {"acquire", "queued", "blocking"}
    /\ hop[p].op = "append_batch"
    /\ LET l == hop[p].lock
       IN  /\ lockHeld' = [lockHeld EXCEPT ![l] = {h \in @ : h[1] # p}]
           /\ lockQueue' = [lockQueue EXCEPT ![l] = SelectSeq(@, LAMBDA w : w[1] # p)]
    /\ hop' = [hop EXCEPT ![p] =
                 IF hop[p].pc = "blocking" THEN [hop[p] EXCEPT !.pc = "detached"] ELSE HIdle]
    /\ UNCHANGED <<guards, nextLock, db, leftover>>

InitGuard ==
    /\ StoreAtRest
    /\ GuardAtRest
    /\ RegistryAtRest
    /\ SessionAtRest
    /\ FilesAtRest
    /\ PublishAtRest
    /\ RootAtRest

NextGuard ==
    \/ (\E p \in HProcs, op \in HistoryOps : HCall(p, op))
         /\ UNCHANGED <<txn, appended, reply, pager, origin, registryVars, sessionVars, fileVars, publishVars, rootVars>>
    \/ (\E p \in HProcs, op \in HistoryOps : HCallNoFile(p, op))
         /\ UNCHANGED <<txn, appended, reply, pager, origin, registryVars, sessionVars, fileVars, publishVars, rootVars>>
    \/ (\E p \in HProcs : HAcquire(p))
         /\ UNCHANGED <<txn, appended, reply, pager, origin, registryVars, sessionVars, fileVars, publishVars, rootVars>>
    \/ (\E l \in LockIds : HGrant(l))
         /\ UNCHANGED <<txn, appended, reply, pager, origin, registryVars, sessionVars, fileVars, publishVars, rootVars>>
    \/ (\E p \in HProcs, fault \in Faults : HFileOpDone(p, fault))
         /\ UNCHANGED <<txn, appended, reply, pager, origin, registryVars, sessionVars, fileVars, publishVars, rootVars>>
    \/ (\E p \in HProcs : HFinish(p))
         /\ UNCHANGED <<txn, appended, reply, pager, origin, registryVars, sessionVars, fileVars, publishVars, rootVars>>
    \/ (\E p \in HProcs : HAbort(p))
         /\ UNCHANGED <<txn, appended, reply, pager, origin, registryVars, sessionVars, fileVars, publishVars, rootVars>>

SpecGuard == InitGuard /\ [][NextGuard]_vars

\* the closure of the call is executing its file operations
Executing(p) == hop[p].pc \in {"blocking", "detached"}

\* C2: while clear or deleteConnection executes its file operations for the id,
\* no other HistoryStore operation on that id executes its file operations.
C2_DestructiveOpsRunAlone ==
    \A p, q \in HProcs :
        (p # q /\ Executing(p) /\ hop[p].op \in DestructiveOps) => ~Executing(q)

(***************************************************************************)
(* SpecRegistry: MqttManager::connect and MqttManager::disconnect, called  *)
(* by tasks of the multi-threaded runtime.  Each DashMap operation is one  *)
(* atomic step; a call is the sequence of its DashMap operations.          *)
(***************************************************************************)
\* tokio::spawn(existing.shutdown()) for the session removed from the table
IssueShutdown(existing, how) ==
    IF existing = NoSession
    THEN UNCHANGED <<shutdowns, retired>>
    ELSE /\ shutdowns' = [shutdowns EXCEPT ![existing] = @ + 1]
         /\ retired' = [retired EXCEPT ![existing] = how]

\* what a registry call returns; turn tells two equal calls in a row apart
Returned(op, id, result) ==
    [op |-> op, id |-> id, result |-> result, turn |-> 1 - lastCall.turn]

\* char::is_whitespace on the characters the model draws hosts from
Whitespace == {" "}

\* str::trim: leading and trailing whitespace removed
RECURSIVE trim_start(_)
trim_start(text) ==
    IF text # <<>> /\ Head(text) \in Whitespace THEN trim_start(Tail(text)) ELSE text

trim(text) == Reverse(trim_start(Reverse(trim_start(text))))

\* the hosts and ports a profile or a broker entry can carry
Hosts == { <<>>, <<" ">>, <<" ", "h", " ">> }
Ports == {0, 1883}
BrokerList ==
    { <<>>,
      <<[id |-> "b1", host |-> <<" ", "h", " ">>, port |-> 1883]>>,
      <<[id |-> "b1", host |-> <<" ">>, port |-> 1883]>>,
      <<[id |-> "b1", host |-> <<" ", "h", " ">>, port |-> 0]>> }
Profiles == [host : Hosts, port : Ports, broker_id : {None, Some("b1")}]

\* brokers.into_iter().find(|b| b.id == broker_id)
find_broker(brokers, broker_id) ==
    IF \E i \in 1..Len(brokers) : brokers[i].id = broker_id
    THEN Some(brokers[CHOOSE i \in 1..Len(brokers) :
                        /\ brokers[i].id = broker_id
                        /\ \A j \in 1..(i - 1) : brokers[j].id # broker_id])
    ELSE None

\* mutant: a port of 0 is let through
resolve_connection_NoPortCheck(profile, brokers) ==
    LET found == IF profile.broker_id.some
                 THEN find_broker(brokers, profile.broker_id.v) ELSE None
        host == IF found.some THEN found.v.host ELSE profile.host
        port == IF found.some THEN found.v.port ELSE profile.port
    IN  IF trim(host) = <<>> THEN [ok |-> FALSE, error |-> "Broker host is required"]
        ELSE [ok |-> TRUE, host |-> host, port |-> port]

\* resolve_connection, as far as host and port go: the broker entry the profile
\* refers to overrides them, then both are checked
resolve_connection(profile, brokers) ==
    LET found == IF profile.broker_id.some
                 THEN find_broker(brokers, profile.broker_id.v) ELSE None
        host == IF found.some THEN found.v.host ELSE profile.host
        port == IF found.some THEN found.v.port ELSE profile.port
    IN  IF trim(host) = <<>> THEN [ok |-> FALSE, error |-> "Broker host is required"]
        ELSE IF port = 0 THEN [ok |-> FALSE, error |-> "Broker port is required"]
        ELSE [ok |-> TRUE, host |-> host, port |-> port]

\* what resolve_connection returns for the requests of the model
ResolveOutcomes ==
    {resolve_connection(profile, brokers) : profile \in Profiles, brokers \in BrokerList}

\* the errors resolve_connection returns
ResolveErrors == {"Broker host is required", "Broker port is required"}

\* mqtt_connect, line 22: resolve_connection fails for the profile of some
\* caller and the error is returned before MqttManager::connect is called
ConnectRejected(id, error) ==
    /\ {k \in Callers : caller[k].pc = "idle"} # {}
    /\ [ok |-> FALSE, error |-> error] \in ResolveOutcomes
    /\ lastCall' = Returned("connect", id, error)
    /\ UNCHANGED <<sessions, nextSession, caller, created, shutdowns, retired, inboxes>>

\* mqtt_connect, line 22-25: the profile resolves and MqttManager::connect is called
ConnectAccepted(profile, brokers) == resolve_connection(profile, brokers).ok

\* some request resolves
SomeConnectAccepted ==
    {o \in ResolveOutcomes : o.ok} # {}

\* connect, line 21-23: self.sessions.remove(&connection.id), shutdown of the
\* session found
ConnectRemove(k, id) ==
    /\ caller[k].pc = "idle"
    /\ nextSession + Cardinality({c \in Callers : caller[c].pc = "removed"}) < MaxSessions
    /\ sessions' = [sessions EXCEPT ![id] = NoSession]
    /\ IssueShutdown(sessions[id], "superseded")
    /\ caller' = [caller EXCEPT ![k] = [pc |-> "removed", id |-> id]]
    /\ UNCHANGED <<nextSession, created, inboxes, lastCall>>

\* connect, line 25: start_session builds the new session
ConnectStart(k) ==
    /\ caller[k].pc = "removed"
    /\ nextSession' = nextSession + 1
    /\ created' = [created EXCEPT ![nextSession + 1] = caller[k].id]
    /\ caller' = [caller EXCEPT ![k] = [pc |-> "started", id |-> caller[k].id,
                                         session |-> nextSession + 1]]
    /\ UNCHANGED <<sessions, shutdowns, retired, inboxes, lastCall>>

\* connect, line 26: self.sessions.insert(connection.id, session); the handle
\* the insert replaces is returned by DashMap and dropped
ConnectInsert(k) ==
    /\ caller[k].pc = "started"
    /\ sessions' = [sessions EXCEPT ![caller[k].id] = caller[k].session]
    /\ retired' = IF sessions[caller[k].id] = NoSession THEN retired
                  ELSE [retired EXCEPT ![sessions[caller[k].id]] = "overwritten"]
    /\ caller' = [caller EXCEPT ![k] = CallerIdle]
    /\ UNCHANGED <<nextSession, created, shutdowns, inboxes, lastCall>>

\* mutant: disconnect leaves the session in the table
Disconnect_KeepsEntry(k, id) ==
    /\ caller[k].pc = "idle"
    /\ sessions[id] # NoSession
    /\ UNCHANGED sessions
    /\ IssueShutdown(sessions[id], "disconnected")
    /\ lastCall' = Returned("disconnect", id, "Ok")
    /\ UNCHANGED <<nextSession, caller, created, inboxes>>

\* disconnect on a registered id
Disconnect(k, id) ==
    /\ caller[k].pc = "idle"
    /\ sessions[id] # NoSession
    /\ sessions' = [sessions EXCEPT ![id] = NoSession]
    /\ IssueShutdown(sessions[id], "disconnected")
    /\ lastCall' = Returned("disconnect", id, "Ok")
    /\ UNCHANGED <<nextSession, caller, created, inboxes>>

\* disconnect on an id without session: Err(ConnectionNotFound)
DisconnectNotFound(k, id) ==
    /\ caller[k].pc = "idle"
    /\ sessions[id] = NoSession
    /\ lastCall' = Returned("disconnect", id, "ConnectionNotFound")
    /\ UNCHANGED <<sessions, nextSession, caller, created, shutdowns, retired,
                   inboxes>>

\* commands waiting in all the inboxes
RECURSIVE Queued(_)
Queued(ss) ==
    IF ss = {} THEN 0
    ELSE LET s == CHOOSE x \in ss : TRUE IN Len(inboxes[s]) + Queued(ss \ {s})

\* whether the receiver of a session's inbox can be gone: the command loop ends
\* only after a shutdown of the handle or after the handle, the only sender,
\* was dropped
ReceiverStates(s) == IF retired[s] = "no" THEN {"open"} ELSE {"open", "closed"}

\* mutant: the command goes to the session created last
Forward_ToNewest(k, id, kind) ==
    /\ caller[k].pc = "idle"
    /\ sessions[id] # NoSession
    /\ Queued(SessIds) < MaxQueued
    /\ \E receiver \in ReceiverStates(nextSession) :
           IF receiver = "closed"
           THEN /\ lastCall' = Returned(kind, id, "CommandChannelClosed")
                /\ UNCHANGED inboxes
           ELSE /\ lastCall' = Returned(kind, id, "Ok")
                /\ inboxes' = [inboxes EXCEPT ![nextSession] = Append(@, kind)]
    /\ UNCHANGED <<sessions, nextSession, caller, created, shutdowns, retired>>

\* subscribe / unsubscribe / publish on a registered id: sessions.get, then
\* session.send while the entry is held
Forward(k, id, kind) ==
    /\ caller[k].pc = "idle"
    /\ sessions[id] # NoSession
    /\ Queued(SessIds) < MaxQueued
    /\ \E receiver \in ReceiverStates(sessions[id]) :
           IF receiver = "closed"
           THEN /\ lastCall' = Returned(kind, id, "CommandChannelClosed")
                /\ UNCHANGED inboxes
           ELSE /\ lastCall' = Returned(kind, id, "Ok")
                /\ inboxes' = [inboxes EXCEPT ![sessions[id]] = Append(@, kind)]
    /\ UNCHANGED <<sessions, nextSession, caller, created, shutdowns, retired>>

\* subscribe / unsubscribe / publish on an id without session: Err(ConnectionNotFound)
ForwardNotFound(k, id, kind) ==
    /\ caller[k].pc = "idle"
    /\ sessions[id] = NoSession
    /\ lastCall' = Returned(kind, id, "ConnectionNotFound")
    /\ UNCHANGED <<sessions, nextSession, caller, created, shutdowns, retired,
                   inboxes>>

\* the command loop of a session takes the next command from its inbox, or the
\* command is dropped with the receiver
CommandTaken(s) ==
    /\ inboxes[s] # <<>>
    /\ inboxes' = [inboxes EXCEPT ![s] = Tail(@)]
    /\ UNCHANGED <<sessions, nextSession, caller, created, shutdowns, retired, lastCall>>

InitRegistry ==
    /\ StoreAtRest
    /\ GuardAtRest
    /\ RegistryAtRest
    /\ SessionAtRest
    /\ FilesAtRest
    /\ PublishAtRest
    /\ RootAtRest

NextRegistry ==
    \/ (\E id \in ConnIds, error \in ResolveErrors : ConnectRejected(id, error))
         /\ UNCHANGED <<storeVars, guardVars, sessionVars, fileVars, publishVars, rootVars>>
    \/ (\E k \in Callers, id \in ConnIds : SomeConnectAccepted /\ ConnectRemove(k, id))
         /\ UNCHANGED <<storeVars, guardVars, sessionVars, fileVars, publishVars, rootVars>>
    \/ (\E k \in Callers : ConnectStart(k))
         /\ UNCHANGED <<storeVars, guardVars, sessionVars, fileVars, publishVars, rootVars>>
    \/ (\E k \in Callers : ConnectInsert(k))
         /\ UNCHANGED <<storeVars, guardVars, sessionVars, fileVars, publishVars, rootVars>>
    \/ (\E k \in Callers, id \in ConnIds : Disconnect(k, id))
         /\ UNCHANGED <<storeVars, guardVars, sessionVars, fileVars, publishVars, rootVars>>
    \/ (\E k \in Callers, id \in ConnIds : DisconnectNotFound(k, id))
         /\ UNCHANGED <<storeVars, guardVars, sessionVars, fileVars, publishVars, rootVars>>
    \/ (\E k \in Callers, id \in ConnIds, kind \in RequestKinds : Forward(k, id, kind))
         /\ UNCHANGED <<storeVars, guardVars, sessionVars, fileVars, publishVars, rootVars>>
    \/ (\E k \in Callers, id \in ConnIds, kind \in RequestKinds : ForwardNotFound(k, id, kind))
         /\ UNCHANGED <<storeVars, guardVars, sessionVars, fileVars, publishVars, rootVars>>
    \/ (\E s \in SessIds : CommandTaken(s))
         /\ UNCHANGED <<storeVars, guardVars, sessionVars, fileVars, publishVars, rootVars>>

SpecRegistry == InitRegistry /\ [][NextRegistry]_vars

SessionsOf(id) == {s \in SessIds : created[s] = id}

\* no connect call for the id is under way
ConnectsCompleted(id) == \A k \in Callers : caller[k].pc = "idle" \/ caller[k].id # id

\* C1: after N connect calls for an id (and no disconnect) have completed, in any
\* interleaving, exactly one session of the id is registered and live, shutdown
\* has been issued for exactly N-1 of the N sessions created, and no session has
\* left the table without a shutdown being issued for it.
C1_OneLiveSessionAfterConnects ==
    \A id \in ConnIds :
        (/\ ConnectsCompleted(id)
         /\ SessionsOf(id) # {}
         /\ \A s \in SessionsOf(id) : retired[s] # "disconnected") =>
            /\ sessions[id] \in SessionsOf(id)
            /\ shutdowns[sessions[id]] = 0
            /\ Cardinality({s \in SessionsOf(id) : shutdowns[s] >= 1})
                  = Cardinality(SessionsOf(id)) - 1
            /\ \A s \in SessionsOf(id) : s # sessions[id] => shutdowns[s] >= 1

(***************************************************************************)
(* SpecSession: one session built by start_session: its event loop, its    *)
(* command loop, its batch emitter, and the handle's shutdown or drop.     *)
(* The rumqttc client and event loop are the environment: a poll returns   *)
(* any event the connection state allows, a client call succeeds or fails. *)
(***************************************************************************)
Status(status, by) == [status |-> status, by |-> by]

\* emit_status for each notification of one step, in order
EmitStatus(notes) ==
    /\ Len(statusLog) + Len(notes) <= MaxStatus
    /\ statusLog' = statusLog \o notes

\* the MqttBatchItem built for the n-th inbound publish
InboundMsg(n) ==
    [topic |-> "a/b", payload |-> n, qos |-> 0, retain |-> FALSE,
     direction |-> "In", timestamp |-> n]

\* the event loop owns the rumqttc event loop and the message sender
EventLoopGone == eventTask \in {"ended", "aborted"}

\* start_session: emits Connecting, then spawns the three tasks
StartSession ==
    /\ sessPhase = "none"
    /\ EmitStatus(<<Status("Connecting", "start")>>)
    /\ batchTask' = "select"
    /\ eventTask' = "polling"
    /\ cmdTask' = "receiving"
    /\ sessPhase' = "live"
    /\ UNCHANGED <<inbox, msgChan, buffer, flushing, arrived, handed, republished, codec,
                   accepted, inFlight, executed, settled, heldAtShutdown, persisted>>

\* event loop: poll returns Incoming::ConnAck
PollConnAck ==
    /\ eventTask = "polling"
    /\ ~codec.acked
    /\ codec' = [codec EXCEPT !.acked = TRUE]
    /\ EmitStatus(<<Status("Connected", "event")>>)
    /\ UNCHANGED <<inbox, cmdTask, eventTask, batchTask, msgChan, buffer, flushing,
                   arrived, handed, republished, sessPhase,
                   accepted, inFlight, executed, settled, heldAtShutdown, persisted>>

\* event loop: poll returns Incoming::Publish; the send fails, and is ignored,
\* when the batch emitter has dropped the receiver
PollPublish ==
    /\ eventTask = "polling"
    /\ codec.acked
    /\ Len(arrived) < MaxArrived
    /\ arrived' = Append(arrived, InboundMsg(Len(arrived) + 1))
    /\ msgChan' = IF batchTask \in {"ended", "aborted"} THEN msgChan
                  ELSE Append(msgChan, InboundMsg(Len(arrived) + 1))
    /\ settled' = FALSE
    /\ UNCHANGED <<heldAtShutdown, persisted>>
    /\ UNCHANGED <<inbox, cmdTask, eventTask, batchTask, buffer, flushing, statusLog,
                   handed, republished, sessPhase, codec,
                   accepted, inFlight, executed>>

\* event loop: poll returns Outgoing::Disconnect; the loop goes on polling
PollOutgoingDisconnect ==
    /\ eventTask = "polling"
    /\ codec.acked
    /\ codec.request
    /\ codec' = [codec EXCEPT !.request = FALSE]
    /\ EmitStatus(<<Status("Disconnected", "event")>>)
    /\ UNCHANGED <<inbox, cmdTask, eventTask, batchTask, msgChan, buffer, flushing,
                   arrived, handed, republished, sessPhase,
                   accepted, inFlight, executed, settled, heldAtShutdown, persisted>>

\* event loop: poll returns any other event
PollOther ==
    /\ eventTask = "polling"
    /\ UNCHANGED sessionVars

\* mutant: the event loop polls again after an error
PollErr_NoBreak ==
    /\ eventTask = "polling"
    /\ EmitStatus(<<Status("Error", "event")>>)
    /\ UNCHANGED <<inbox, cmdTask, eventTask, batchTask, msgChan, buffer, flushing,
                   arrived, handed, republished, sessPhase, codec,
                   accepted, inFlight, executed, settled, heldAtShutdown, persisted>>

\* mutant: the event loop connects again after an error
PollErr_Reconnect ==
    /\ eventTask = "polling"
    /\ EmitStatus(<<Status("Error", "event")>>)
    /\ codec' = [codec EXCEPT !.acked = FALSE]
    /\ UNCHANGED <<inbox, cmdTask, eventTask, batchTask, msgChan, buffer, flushing,
                   arrived, handed, republished, sessPhase,
                   accepted, inFlight, executed, settled, heldAtShutdown, persisted>>

\* event loop: poll returns Err; emit Error and break
PollErr ==
    /\ eventTask = "polling"
    /\ EmitStatus(<<Status("Error", "event")>>)
    /\ eventTask' = "ended"
    /\ UNCHANGED <<inbox, cmdTask, batchTask, msgChan, buffer, flushing,
                   arrived, handed, republished, sessPhase, codec,
                   accepted, inFlight, executed, settled, heldAtShutdown, persisted>>

\* a command, tagged with its place in the order of acceptance and with whether
\* the event loop was gone when it was accepted. The arms of the command loop
\* for Subscribe, Unsubscribe and Publish differ only in the client call they
\* make, whose outcome is drawn in CommandStep, so of the variant the command
\* keeps whether it is Disconnect.
Command(kind) ==
    [disconnect |-> kind = "Disconnect", n |-> Len(accepted) + 1, late |-> EventLoopGone]

\* what the histories keep of a command: its tags and whether it is the Disconnect
Entry(command) ==
    [n |-> command.n, disconnect |-> command.disconnect, late |-> command.late]

\* MqttSessionHandle::send: the command is queued unless the receiver is gone
send(command) ==
    IF cmdTask \in {"receiving", "calling"}
    THEN /\ inbox' = Append(inbox, command)
         /\ accepted' = Append(accepted, Entry(command))
    ELSE UNCHANGED <<inbox, accepted>>

\* MqttSessionHandle::send from MqttManager::subscribe / unsubscribe / publish
SendCommand(kind) ==
    /\ sessPhase = "live"
    /\ Len(inbox) < MaxInbox
    /\ Len(accepted) < MaxCommands
    /\ send(Command(kind))
    /\ UNCHANGED <<cmdTask, eventTask, batchTask, msgChan, buffer, flushing, statusLog,
                   arrived, handed, republished, sessPhase, codec,
                   inFlight, executed, settled, heldAtShutdown, persisted>>

\* the results a client call can have: the request channel is closed once the
\* event loop is gone
CallResults == IF EventLoopGone THEN {"err"} ELSE {"ok", "err"}

\* mutant: the next command is taken while a client call is still under way
CommandTake_NoAwait ==
    /\ cmdTask \in {"receiving", "calling"}
    /\ inbox # <<>>
    /\ inbox' = Tail(inbox)
    /\ inFlight' = inFlight \cup {Head(inbox)}
    /\ cmdTask' = "calling"
    /\ UNCHANGED <<eventTask, batchTask, msgChan, buffer, flushing, statusLog,
                   arrived, handed, republished, sessPhase, codec,
                   accepted, executed, settled, heldAtShutdown, persisted>>

\* command loop: recv returns a command and its client call starts
CommandTake ==
    /\ cmdTask = "receiving"
    /\ inbox # <<>>
    /\ inbox' = Tail(inbox)
    /\ inFlight' = inFlight \cup {Head(inbox)}
    /\ cmdTask' = "calling"
    /\ UNCHANGED <<eventTask, batchTask, msgChan, buffer, flushing, statusLog,
                   arrived, handed, republished, sessPhase, codec,
                   accepted, executed, settled, heldAtShutdown, persisted>>

\* mutant: a failed command ends the loop
CommandStep_StopsOnError(result) ==
    /\ cmdTask = "calling"
    /\ result \in CallResults
    /\ \E command \in inFlight :
           /\ inFlight' = inFlight \ {command}
           /\ executed' = Append(executed, [command |-> Entry(command), result |-> result])
           /\ codec' = IF command.disconnect /\ result = "ok"
                       THEN [codec EXCEPT !.request = TRUE] ELSE codec
           /\ EmitStatus((IF result = "err" THEN <<Status("Error", "command")>> ELSE <<>>)
                         \o (IF command.disconnect
                             THEN <<Status("Disconnected", "command")>> ELSE <<>>))
           /\ cmdTask' = IF command.disconnect \/ result = "err"
                         THEN "ended" ELSE "receiving"
    /\ UNCHANGED <<inbox, eventTask, batchTask, msgChan, buffer, flushing,
                   arrived, handed, republished, sessPhase, accepted, settled, heldAtShutdown, persisted>>

\* mutant: a Disconnect whose client call failed leaves the loop running
CommandStep_DisconnectOnlyOnSuccess(result) ==
    /\ cmdTask = "calling"
    /\ result \in CallResults
    /\ \E command \in inFlight :
           /\ inFlight' = inFlight \ {command}
           /\ executed' = Append(executed, [command |-> Entry(command), result |-> result])
           /\ codec' = IF command.disconnect /\ result = "ok"
                       THEN [codec EXCEPT !.request = TRUE] ELSE codec
           /\ EmitStatus((IF result = "err" THEN <<Status("Error", "command")>> ELSE <<>>)
                         \o (IF command.disconnect
                             THEN <<Status("Disconnected", "command")>> ELSE <<>>))
           /\ cmdTask' = IF command.disconnect /\ result = "ok"
                         THEN "ended" ELSE "receiving"
    /\ UNCHANGED <<inbox, eventTask, batchTask, msgChan, buffer, flushing,
                   arrived, handed, republished, sessPhase, accepted, settled, heldAtShutdown, persisted>>

\* mutant: a failed client call is not reported
CommandStep_SilentFailure(result) ==
    /\ cmdTask = "calling"
    /\ result \in CallResults
    /\ \E command \in inFlight :
           /\ inFlight' = inFlight \ {command}
           /\ executed' = Append(executed, [command |-> Entry(command), result |-> result])
           /\ codec' = IF command.disconnect /\ result = "ok"
                       THEN [codec EXCEPT !.request = TRUE] ELSE codec
           /\ EmitStatus(<<>>
                         \o (IF command.disconnect
                             THEN <<Status("Disconnected", "command")>> ELSE <<>>))
           /\ cmdTask' = IF command.disconnect THEN "ended" ELSE "receiving"
    /\ UNCHANGED <<inbox, eventTask, batchTask, msgChan, buffer, flushing,
                   arrived, handed, republished, sessPhase, accepted, settled, heldAtShutdown, persisted>>

\* command loop: the client call returns; the rest of the while-let body
CommandStep(result) ==
    /\ cmdTask = "calling"
    /\ result \in CallResults
    /\ \E command \in inFlight :
           /\ inFlight' = inFlight \ {command}
           /\ executed' = Append(executed, [command |-> Entry(command), result |-> result])
           /\ codec' = IF command.disconnect /\ result = "ok"
                       THEN [codec EXCEPT !.request = TRUE] ELSE codec
           /\ EmitStatus((IF result = "err" THEN <<Status("Error", "command")>> ELSE <<>>)
                         \o (IF command.disconnect
                             THEN <<Status("Disconnected", "command")>> ELSE <<>>))
           /\ cmdTask' = IF command.disconnect THEN "ended" ELSE "receiving"
    /\ UNCHANGED <<inbox, eventTask, batchTask, msgChan, buffer, flushing,
                   arrived, handed, republished, sessPhase, accepted, settled, heldAtShutdown, persisted>>

\* command loop: recv returns None, every sender is gone and the inbox is empty
CommandInboxClosed ==
    /\ cmdTask = "receiving"
    /\ inbox = <<>>
    /\ sessPhase \in {"shutdown", "dropped"}
    /\ cmdTask' = "ended"
    /\ UNCHANGED <<inbox, eventTask, batchTask, msgChan, buffer, flushing, statusLog,
                   arrived, handed, republished, sessPhase, codec,
                   accepted, inFlight, executed, settled, heldAtShutdown, persisted>>

\* mutant: the message goes to the front of the buffer
buffer_push_Front(buf, msg) == <<msg>> \o buf

\* buffer.push(msg)
buffer_push(buf, msg) == Append(buf, msg)

\* mutant: the batch is copied out of the buffer, which keeps its messages
FlushBegin_Clones(buf, next) ==
    /\ buffer' = buf
    /\ flushing' = buf
    /\ handed' = Append(handed, buf)
    /\ batchTask' = next

\* flush_batch up to the await of append_batch: the buffer is taken and handed over
FlushBegin(buf, next) ==
    /\ buffer' = <<>>
    /\ flushing' = buf
    /\ handed' = Append(handed, buf)
    /\ batchTask' = next

\* mutant: the flush by size waits for one message more
BatchRecv_FlushAbove ==
    /\ batchTask = "select"
    /\ msgChan # <<>>
    /\ msgChan' = Tail(msgChan)
    /\ IF Len(buffer_push(buffer, Head(msgChan))) > BATCH_MAX
       THEN FlushBegin(buffer_push(buffer, Head(msgChan)), "flush")
       ELSE /\ buffer' = buffer_push(buffer, Head(msgChan))
            /\ UNCHANGED <<flushing, handed, batchTask>>
    /\ UNCHANGED <<inbox, cmdTask, eventTask, statusLog, arrived, republished,
                   sessPhase, codec,
                   accepted, inFlight, executed, settled, heldAtShutdown, persisted>>

\* batch emitter: the recv branch with Some(msg)
BatchRecv ==
    /\ batchTask = "select"
    /\ msgChan # <<>>
    /\ msgChan' = Tail(msgChan)
    /\ IF Len(buffer_push(buffer, Head(msgChan))) >= BATCH_MAX
       THEN FlushBegin(buffer_push(buffer, Head(msgChan)), "flush")
       ELSE /\ buffer' = buffer_push(buffer, Head(msgChan))
            /\ UNCHANGED <<flushing, handed, batchTask>>
    /\ UNCHANGED <<inbox, cmdTask, eventTask, statusLog, arrived, republished,
                   sessPhase, codec,
                   accepted, inFlight, executed, settled, heldAtShutdown, persisted>>

\* mutant: the timer branch leaves the buffer as it is
BatchTick_SkipsFlush ==
    /\ batchTask = "select"
    /\ settled' = (msgChan = <<>>)
    /\ UNCHANGED <<heldAtShutdown, persisted>>
    /\ UNCHANGED <<inbox, cmdTask, eventTask, batchTask, msgChan, buffer, flushing,
                   statusLog, arrived, handed, republished, sessPhase, codec,
                   accepted, inFlight, executed>>

\* batch emitter: the interval.tick branch
BatchTick ==
    /\ batchTask = "select"
    /\ IF buffer # <<>>
       THEN FlushBegin(buffer, "flush")
       ELSE UNCHANGED <<buffer, flushing, handed, batchTask>>
    /\ settled' = (msgChan = <<>>)
    /\ UNCHANGED <<heldAtShutdown, persisted>>
    /\ UNCHANGED <<inbox, cmdTask, eventTask, msgChan, statusLog, arrived, republished,
                   sessPhase, codec,
                   accepted, inFlight, executed>>

\* mutant: on closure the emitter exits with the buffer unflushed
BatchClosed_ExitsAtOnce ==
    /\ batchTask = "select"
    /\ msgChan = <<>>
    /\ EventLoopGone
    /\ batchTask' = "ended"
    /\ UNCHANGED <<buffer, flushing, handed>>
    /\ UNCHANGED <<inbox, cmdTask, eventTask, msgChan, statusLog, arrived, republished,
                   sessPhase, codec,
                   accepted, inFlight, executed, settled, heldAtShutdown, persisted>>

\* batch emitter: the recv branch with None, the event loop has dropped the sender
BatchClosed ==
    /\ batchTask = "select"
    /\ msgChan = <<>>
    /\ EventLoopGone
    /\ IF buffer # <<>>
       THEN FlushBegin(buffer, "last_flush")
       ELSE /\ batchTask' = "ended"
            /\ UNCHANGED <<buffer, flushing, handed>>
    /\ UNCHANGED <<inbox, cmdTask, eventTask, msgChan, statusLog, arrived, republished,
                   sessPhase, codec,
                   accepted, inFlight, executed, settled, heldAtShutdown, persisted>>

\* the messages of held that are not in batch
Without(held, batch) ==
    SelectSeq(held, LAMBDA m : \A i \in 1..Len(batch) : batch[i] # m)

\* mutant: a batch whose append failed is not emitted
FlushDone_DropsOnFailure(result) ==
    /\ batchTask \in {"flush", "last_flush"}
    /\ EmitStatus(IF result = "err" THEN <<Status("Error", "batch")>> ELSE <<>>)
    /\ republished' = IF result = "err" THEN republished ELSE Append(republished, flushing)
    /\ flushing' = <<>>
    /\ heldAtShutdown' = IF result = "err" THEN heldAtShutdown ELSE Without(heldAtShutdown, flushing)
    /\ persisted' = IF result = "ok" THEN Append(persisted, flushing) ELSE persisted
    /\ batchTask' = IF batchTask = "flush" THEN "select" ELSE "ended"
    /\ UNCHANGED <<inbox, cmdTask, eventTask, msgChan, buffer, arrived, handed,
                   sessPhase, codec,
                   accepted, inFlight, executed, settled>>

\* mutant: the emitter goes on flushing after its abort
FlushDone_AfterAbort(result) ==
    /\ batchTask \in {"flush", "last_flush", "aborted"}
    /\ EmitStatus(IF result = "err" THEN <<Status("Error", "batch")>> ELSE <<>>)
    /\ republished' = Append(republished, flushing)
    /\ flushing' = <<>>
    /\ heldAtShutdown' = Without(heldAtShutdown, flushing)
    /\ batchTask' = IF batchTask = "flush" THEN "select"
                    ELSE IF batchTask = "aborted" THEN "aborted" ELSE "ended"
    /\ persisted' = IF result = "ok" THEN Append(persisted, flushing) ELSE persisted
    /\ UNCHANGED <<inbox, cmdTask, eventTask, msgChan, buffer, arrived, handed,
                   sessPhase, codec,
                   accepted, inFlight, executed, settled>>

\* flush_batch after append_batch returned: Error on failure, then the batch is emitted
FlushDone(result) ==
    /\ batchTask \in {"flush", "last_flush"}
    /\ EmitStatus(IF result = "err" THEN <<Status("Error", "batch")>> ELSE <<>>)
    /\ republished' = Append(republished, flushing)
    /\ flushing' = <<>>
    /\ heldAtShutdown' = Without(heldAtShutdown, flushing)
    /\ persisted' = IF result = "ok" THEN Append(persisted, flushing) ELSE persisted
    /\ batchTask' = IF batchTask = "flush" THEN "select" ELSE "ended"
    /\ UNCHANGED <<inbox, cmdTask, eventTask, msgChan, buffer, arrived, handed,
                   sessPhase, codec,
                   accepted, inFlight, executed, settled>>

\* MqttSessionHandle::shutdown: Disconnect is sent and abort requested for the
\* three tasks; each abort takes effect when its task next yields
Shutdown ==
    /\ sessPhase = "live"
    /\ send(Command("Disconnect"))
    /\ sessPhase' = "shutdown"
    /\ heldAtShutdown' = buffer
    /\ UNCHANGED <<cmdTask, eventTask, batchTask, msgChan, buffer, flushing, statusLog,
                   arrived, handed, republished, codec, inFlight, executed, settled,
                   persisted>>

\* the handle is dropped without shutdown (replaced in the table by an insert)
HandleDropped ==
    /\ sessPhase = "live"
    /\ sessPhase' = "dropped"
    /\ UNCHANGED <<inbox, cmdTask, eventTask, batchTask, msgChan, buffer, flushing,
                   statusLog, arrived, handed, republished, codec,
                   accepted, inFlight, executed, settled, heldAtShutdown, persisted>>

\* command_task.abort() takes effect: a client call under way is dropped, and so
\* is the receiver with the commands still queued
CommandTaskAborted ==
    /\ sessPhase = "shutdown"
    /\ cmdTask \in {"receiving", "calling"}
    /\ cmdTask' = "aborted"
    /\ inFlight' = {}
    /\ inbox' = <<>>
    /\ UNCHANGED <<eventTask, batchTask, msgChan, buffer, flushing, statusLog,
                   arrived, handed, republished, sessPhase, codec,
                   accepted, executed, settled, heldAtShutdown, persisted>>

\* event_task.abort() takes effect
EventTaskAborted ==
    /\ sessPhase = "shutdown"
    /\ eventTask = "polling"
    /\ eventTask' = "aborted"
    /\ UNCHANGED <<inbox, cmdTask, batchTask, msgChan, buffer, flushing, statusLog,
                   arrived, handed, republished, sessPhase, codec,
                   accepted, inFlight, executed, settled, heldAtShutdown, persisted>>

\* what becomes of the append_batch a cancelled flush_batch was awaiting: the
\* insert_batch closure handed to spawn_blocking is not cancelled with the task
\* and commits or fails by itself; a call cancelled before the closure was
\* spawned writes nothing
AbandonedAppend == {"committed", "failed", "not started"}

\* batch_task.abort() takes effect: the buffer and a batch being flushed are dropped
BatchTaskAborted(outcome) ==
    /\ sessPhase = "shutdown"
    /\ batchTask \in {"select", "flush", "last_flush"}
    /\ outcome \in AbandonedAppend
    /\ batchTask' = "aborted"
    /\ buffer' = <<>>
    /\ flushing' = <<>>
    /\ msgChan' = <<>>
    /\ persisted' = IF batchTask # "select" /\ outcome = "committed"
                     THEN Append(persisted, flushing) ELSE persisted
    /\ UNCHANGED <<inbox, cmdTask, eventTask, statusLog, arrived, handed, republished,
                   sessPhase, codec,
                   accepted, inFlight, executed, settled, heldAtShutdown>>

InitSession ==
    /\ StoreAtRest
    /\ GuardAtRest
    /\ RegistryAtRest
    /\ SessionAtRest
    /\ FilesAtRest
    /\ PublishAtRest
    /\ RootAtRest

NextSession ==
    \/ StartSession /\ UNCHANGED <<storeVars, guardVars, registryVars, fileVars, publishVars, rootVars>>
    \/ PollConnAck /\ UNCHANGED <<storeVars, guardVars, registryVars, fileVars, publishVars, rootVars>>
    \/ PollPublish /\ UNCHANGED <<storeVars, guardVars, registryVars, fileVars, publishVars, rootVars>>
    \/ PollOutgoingDisconnect /\ UNCHANGED <<storeVars, guardVars, registryVars, fileVars, publishVars, rootVars>>
    \/ PollOther /\ UNCHANGED <<storeVars, guardVars, registryVars, fileVars, publishVars, rootVars>>
    \/ PollErr /\ UNCHANGED <<storeVars, guardVars, registryVars, fileVars, publishVars, rootVars>>
    \/ (\E kind \in RequestKinds : SendCommand(kind))
         /\ UNCHANGED <<storeVars, guardVars, registryVars, fileVars, publishVars, rootVars>>
    \/ CommandTake /\ UNCHANGED <<storeVars, guardVars, registryVars, fileVars, publishVars, rootVars>>
    \/ (\E result \in {"ok", "err"} : CommandStep(result))
         /\ UNCHANGED <<storeVars, guardVars, registryVars, fileVars, publishVars, rootVars>>
    \/ CommandInboxClosed /\ UNCHANGED <<storeVars, guardVars, registryVars, fileVars, publishVars, rootVars>>
    \/ BatchRecv /\ UNCHANGED <<storeVars, guardVars, registryVars, fileVars, publishVars, rootVars>>
    \/ BatchTick /\ UNCHANGED <<storeVars, guardVars, registryVars, fileVars, publishVars, rootVars>>
    \/ BatchClosed /\ UNCHANGED <<storeVars, guardVars, registryVars, fileVars, publishVars, rootVars>>
    \/ (\E result \in {"ok", "err"} : FlushDone(result))
         /\ UNCHANGED <<storeVars, guardVars, registryVars, fileVars, publishVars, rootVars>>
    \/ Shutdown /\ UNCHANGED <<storeVars, guardVars, registryVars, fileVars, publishVars, rootVars>>
    \/ HandleDropped /\ UNCHANGED <<storeVars, guardVars, registryVars, fileVars, publishVars, rootVars>>
    \/ CommandTaskAborted /\ UNCHANGED <<storeVars, guardVars, registryVars, fileVars, publishVars, rootVars>>
    \/ EventTaskAborted /\ UNCHANGED <<storeVars, guardVars, registryVars, fileVars, publishVars, rootVars>>
    \/ (\E outcome \in AbandonedAppend : BatchTaskAborted(outcome))
         /\ UNCHANGED <<storeVars, guardVars, registryVars, fileVars, publishVars, rootVars>>

SpecSession == InitSession /\ [][NextSession]_vars

(***************************************************************************)
(* Claims on the session.                                                  *)
(***************************************************************************)
Terminal == {"Disconnected", "Error"}

\* C3 as stated: the notifications of a session start with Connecting, emitted
\* before any loop step, follow Connecting -> Connected -> {Disconnected, Error},
\* and nothing is emitted after a Disconnected or an Error.
C3_AsStated_TerminalStatus ==
    /\ sessPhase # "none" => statusLog # <<>>
    /\ statusLog # <<>> => statusLog[1].status = "Connecting"
    /\ \A i \in 2..Len(statusLog) :
           /\ statusLog[i].status # "Connecting"
           /\ statusLog[i].status = "Connected" => statusLog[i - 1].status = "Connecting"
           /\ statusLog[i - 1].status \notin Terminal

\* C3 as the code has it: the first notification is Connecting, emitted by
\* start_session before any task exists, and it is emitted only there; Connected
\* comes from the event loop only; the event loop emits nothing after its Error,
\* the command loop emits nothing after its Disconnected.
C3_StatusPerSource ==
    /\ sessPhase # "none" => statusLog # <<>>
    /\ statusLog # <<>> => statusLog[1] = Status("Connecting", "start")
    /\ \A i \in 2..Len(statusLog) :
           /\ statusLog[i].status # "Connecting"
           /\ statusLog[i].by # "start"
           /\ statusLog[i].status = "Connected" => statusLog[i].by = "event"
    /\ \A i, j \in 1..Len(statusLog) :
           (i < j /\ statusLog[i] = Status("Error", "event")) => statusLog[j].by # "event"
    /\ \A i, j \in 1..Len(statusLog) :
           (i < j /\ statusLog[i] = Status("Disconnected", "command"))
               => statusLog[j].by # "command"

\* the event loop has halted on an error and a later notification was emitted by
\* the command loop
C3_Witness ==
    /\ Len(statusLog) = 4
    /\ statusLog[2] = Status("Connected", "event")
    /\ statusLog[3] = Status("Error", "event")
    /\ statusLog[4] = Status("Error", "command")
    /\ eventTask = "ended"

RECURSIVE Flatten(_)
Flatten(batches) ==
    IF batches = <<>> THEN <<>> ELSE Head(batches) \o Flatten(Tail(batches))

IsPrefix(a, b) == Len(a) <= Len(b) /\ SubSeq(b, 1, Len(a)) = a

\* C4: the batches handed to append_batch, and the batches republished, each
\* concatenate in flush order to a prefix of the inbound messages in arrival
\* order; a batch is republished only after it was handed over.
C4_FlushedBatchesPrefixOfArrival ==
    /\ IsPrefix(Flatten(handed), arrived)
    /\ IsPrefix(Flatten(republished), arrived)
    /\ IsPrefix(republished, handed)

\* a batch flushed by size and a later one flushed by the timer or at closure
C4_Witness ==
    /\ Len(republished) = 2
    /\ Len(republished[1]) = BATCH_MAX
    /\ Flatten(republished) = arrived
    /\ Len(arrived) = MaxArrived

Last(seq) == seq[Len(seq)]

\* the client call of a command has returned in this step
CallReturned == Len(executed') = Len(executed) + 1

\* the notifications emitted in this step
Emitted == SubSeq(statusLog', Len(statusLog) + 1, Len(statusLog'))

\* C11: the command loop executes the commands in the order in which they were
\* accepted, one at a time: at most one client call is under way, the calls
\* that returned are the first accepted commands in their order, and a call
\* under way is that of the next accepted command.
C11_CommandsInOrderOneAtATime ==
    /\ Cardinality(inFlight) <= 1
    /\ Len(executed) <= Len(accepted)
    /\ \A i \in 1..Len(executed) : executed[i].command = accepted[i]
    /\ \A command \in inFlight :
           /\ Len(executed) < Len(accepted)
           /\ Entry(command) = accepted[Len(executed) + 1]
    /\ \A i \in 1..Len(inbox) :
           /\ Len(executed) + Cardinality(inFlight) + i <= Len(accepted)
           /\ Entry(inbox[i]) = accepted[Len(executed) + Cardinality(inFlight) + i]

\* two calls have returned, the first one failed, and the third is under way
C11_Witness ==
    /\ Len(executed) = 2
    /\ executed[1].result = "err"
    /\ inFlight # {}

\* C12: when the client call of a Subscribe, Unsubscribe or Publish fails, the
\* command loop emits Error and keeps running: it goes back to receiving and the
\* commands waiting in the inbox stay there to be taken.
C12_FailedCommandKeepsLoopRunning ==
    [][(CallReturned /\ ~Last(executed').command.disconnect
            /\ Last(executed').result = "err")
          => /\ Emitted = <<Status("Error", "command")>>
             /\ cmdTask' = "receiving"
             /\ inbox' = inbox]_vars

\* a command accepted after the failed one has been executed
C12_Witness ==
    /\ Len(executed) = 2
    /\ executed[1].result = "err"
    /\ ~executed[1].command.disconnect
    /\ ~executed[2].command.disconnect
    /\ executed[2].result = "ok"

\* C13: when the client call of a Disconnect returns, with success or failure,
\* the command loop emits Disconnected as its last notification and ends; the
\* Disconnect is the last command accepted and the last executed.
C13_DisconnectEndsCommandLoop ==
    /\ [][(CallReturned /\ Last(executed').command.disconnect)
            => /\ Emitted = (IF Last(executed').result = "err"
                             THEN <<Status("Error", "command")>> ELSE <<>>)
                            \o <<Status("Disconnected", "command")>>
               /\ cmdTask' = "ended"]_vars
    /\ [](\A i \in 1..Len(executed) :
             executed[i].command.disconnect
                 => /\ i = Len(executed)
                    /\ i = Len(accepted)
                    /\ cmdTask = "ended"
                    /\ inFlight = {}
                    /\ inbox = <<>>)
    /\ [][\A i \in 1..Len(statusLog) :
             statusLog[i] = Status("Disconnected", "command")
                 => \A j \in 1..Len(statusLog') : j > i => statusLog'[j].by # "command"]_vars

\* a Disconnect whose client call failed has ended the loop
C13_Witness ==
    /\ executed # <<>>
    /\ Last(executed).command.disconnect
    /\ Last(executed).result = "err"
    /\ Len(executed) >= 2
    /\ cmdTask = "ended"

\* C14: when poll returns an error the event loop emits one Error and ends; from
\* then on it emits no status, forwards no inbound message and does not connect
\* again.
C14_PollErrorEndsEventLoop ==
    /\ [][(eventTask = "polling" /\ eventTask' = "ended")
            => Emitted = <<Status("Error", "event")>>]_vars
    /\ [][eventTask = "ended"
            => /\ eventTask' = "ended"
               /\ arrived' = arrived
               /\ codec' = codec
               /\ \A i \in 1..Len(Emitted) : Emitted[i].by # "event"]_vars
    /\ [](Cardinality({i \in 1..Len(statusLog) : statusLog[i] = Status("Error", "event")})
             = IF eventTask = "ended" THEN 1 ELSE 0)

\* the event loop ended after a message had arrived, and the batch emitter
\* reported a failed persistence afterwards
C14_Witness ==
    /\ eventTask = "ended"
    /\ Len(arrived) >= 1
    /\ Len(statusLog) = 4
    /\ statusLog[3] = Status("Error", "event")
    /\ statusLog[4] = Status("Error", "batch")

\* C15: after a poll error has ended the event loop the session stays as it was
\* in the table, its inbox still accepts commands, and a command whose client
\* call returns fails: Error is emitted for it and, unless it is the Disconnect,
\* the command loop goes on receiving.
C15_CommandsAfterPollErrorFail ==
    /\ [][(eventTask = "polling" /\ eventTask' = "ended")
            => /\ sessPhase' = sessPhase
               /\ cmdTask' = cmdTask
               /\ inbox' = inbox]_vars
    /\ []((eventTask = "ended" /\ sessPhase = "live") => cmdTask \in {"receiving", "calling"})
    /\ [][(eventTask = "ended" /\ CallReturned)
            => /\ Last(executed').result = "err"
               /\ Emitted # <<>>
               /\ Emitted[1] = Status("Error", "command")
               /\ ~Last(executed').command.disconnect => cmdTask' = "receiving"]_vars

\* a command accepted after the event loop ended has been executed and failed,
\* and the session is still live with its command loop receiving
C15_Witness ==
    /\ eventTask = "ended"
    /\ sessPhase = "live"
    /\ executed # <<>>
    /\ Last(executed).command.late
    /\ Last(executed).result = "err"
    /\ Last(statusLog) = Status("Error", "command")
    /\ cmdTask = "receiving"

(***************************************************************************)
(* Claims on the registry calls.                                           *)
(***************************************************************************)
\* a call of the given operations has returned in this step
CallDone(ops) == lastCall' # lastCall /\ lastCall'.op \in ops

\* C16: disconnect on a registered id removes the session from the table and
\* issues its shutdown, once; on an id without session it fails with
\* ConnectionNotFound and changes neither the table nor any session; no session
\* is ever shut down twice.
C16_DisconnectRemovesAndShutsDownOnce ==
    /\ [][CallDone({"disconnect"}) =>
            IF sessions[lastCall'.id] # NoSession
            THEN /\ lastCall'.result = "Ok"
                 /\ sessions' = [sessions EXCEPT ![lastCall'.id] = NoSession]
                 /\ shutdowns' = [shutdowns EXCEPT ![sessions[lastCall'.id]] = @ + 1]
                 /\ retired'[sessions[lastCall'.id]] = "disconnected"
                 /\ inboxes' = inboxes
            ELSE /\ lastCall'.result = "ConnectionNotFound"
                 /\ UNCHANGED <<sessions, shutdowns, retired, inboxes, created>>]_vars
    /\ [](\A s \in SessIds : shutdowns[s] <= 1)

\* a second disconnect of the same id has failed after the first one succeeded
C16_Witness ==
    /\ lastCall.op = "disconnect"
    /\ lastCall.id = "c1"
    /\ lastCall.result = "ConnectionNotFound"
    /\ \E s \in SessIds :
           /\ created[s] = "c1"
           /\ retired[s] = "disconnected"
           /\ shutdowns[s] = 1
    /\ sessions["c1"] = NoSession
    /\ sessions["c2"] # NoSession

\* C17: subscribe, unsubscribe and publish on an id without session fail with
\* ConnectionNotFound and queue nothing; on a registered id they append the one
\* matching command to the inbox of the session registered for the id, and to
\* no other inbox; the table stays as it is.
C17_ForwardToRegisteredSessionOnly ==
    [][CallDone(RequestKinds) =>
          /\ UNCHANGED <<sessions, shutdowns, retired, created>>
          /\ IF sessions[lastCall'.id] = NoSession
             THEN /\ lastCall'.result = "ConnectionNotFound"
                  /\ inboxes' = inboxes
             ELSE /\ lastCall'.result = "Ok"
                  /\ inboxes' = [inboxes EXCEPT ![sessions[lastCall'.id]] =
                                     Append(@, lastCall'.op)]]_vars

\* a publish has been queued for the session of c2 while c1 has a session too
C17_Witness ==
    /\ lastCall.op = "Publish"
    /\ lastCall.id = "c2"
    /\ lastCall.result = "Ok"
    /\ sessions["c1"] # NoSession
    /\ sessions["c2"] # NoSession
    /\ inboxes[sessions["c2"]] = <<"Publish">>
    /\ inboxes[sessions["c1"]] = <<>>

(***************************************************************************)
(* Claims on the batch emitter.                                            *)
(***************************************************************************)
BatchSizeOk(batch) == 1 <= Len(batch) /\ Len(batch) <= BATCH_MAX

\* C19: the buffer is flushed as soon as it holds BATCH_MAX messages, so between
\* two steps of the emitter it holds fewer; every batch handed to append_batch,
\* being flushed or republished holds between 1 and BATCH_MAX messages.
C19_BatchSizeWithinBounds ==
    /\ Len(buffer) < BATCH_MAX
    /\ \A i \in 1..Len(handed) : BatchSizeOk(handed[i])
    /\ \A i \in 1..Len(republished) : BatchSizeOk(republished[i])
    /\ batchTask \in {"flush", "last_flush"} => BatchSizeOk(flushing)

\* a batch of BATCH_MAX messages was flushed by size and a batch of one message
\* is being flushed
C19_Witness ==
    /\ Len(handed) = 2
    /\ Len(handed[1]) = BATCH_MAX
    /\ Len(handed[2]) = 1
    /\ batchTask = "flush"
    /\ flushing = handed[2]

\* fewer than BATCH_MAX messages have arrived, the timer has fired after the
\* last of them was received, and the flush it started is done
IdleAfterFewMessages ==
    /\ settled
    /\ batchTask = "select"
    /\ 0 < Len(arrived)
    /\ Len(arrived) < BATCH_MAX

\* C20 as stated: fewer than BATCH_MAX messages followed by an idle period are
\* flushed as exactly one batch holding all of them.
C20_AsStated_ExactlyOneBatch ==
    IdleAfterFewMessages => (handed = <<arrived>> /\ republished = <<arrived>>)

\* C20 as the code has it: fewer than BATCH_MAX messages followed by an idle
\* period are all flushed, in arrival order, in at least one batch and in
\* non-empty batches only, and nothing stays in the buffer.
C20_AllFlushedAfterIdle ==
    IdleAfterFewMessages =>
        /\ Flatten(republished) = arrived
        /\ handed = republished
        /\ Len(republished) >= 1
        /\ \A i \in 1..Len(republished) : republished[i] # <<>>
        /\ buffer = <<>>
        /\ msgChan = <<>>

\* two messages were flushed as two batches: the timer fired between them
C20_Witness ==
    /\ IdleAfterFewMessages
    /\ Len(arrived) = 2
    /\ Len(republished) = 2
C22_ClosureFlushesBufferThenExits ==
    /\ [][ /\ (batchTask = "select" /\ batchTask' = "last_flush") =>
                /\ EventLoopGone /\ msgChan = <<>> /\ buffer # <<>>
                /\ handed' = Append(handed, buffer)
                /\ flushing' = buffer
                /\ buffer' = <<>>
           /\ (batchTask = "last_flush" /\ batchTask' = "ended") =>
                republished' = Append(republished, flushing)
           /\ (batchTask = "select" /\ batchTask' = "ended") =>
                EventLoopGone /\ msgChan = <<>> /\ buffer = <<>>
           /\ (batchTask # "ended" /\ batchTask' = "ended") =>
                batchTask \in {"select", "last_flush"} ]_vars
    /\ [](batchTask = "ended" =>
            /\ buffer = <<>> /\ flushing = <<>> /\ msgChan = <<>>
            /\ republished = handed
            /\ Flatten(republished) = arrived)

\* one message arrived, the event loop ended before any tick, and the closure
\* flush republished the message
C22_Witness ==
    /\ batchTask = "ended"
    /\ eventTask = "ended"
    /\ sessPhase = "live"
    /\ ~settled
    /\ Len(arrived) = 1
    /\ republished = <<arrived>>


\* ---- C23 ----
\* C23: once the batch emitter of a session that was shut down has stopped,
\* every message that was in its buffer at the moment of shutdown has been
\* handed to the store and republished.
C23_BufferAtShutdownNotDropped ==
    (sessPhase = "shutdown" /\ batchTask \in {"ended", "aborted"}) =>
        heldAtShutdown = <<>>


\* ---- C30 ----
\* the notifications of the step that come from source by
EmittedBy(by) == SelectSeq(Emitted, LAMBDA note : note.by = by)

Stopped(task) == task \in {"ended", "aborted"}

\* C30: shutdown can be called on a live handle whatever the state of the
\* tasks; the call queues Disconnect when the command loop still has its
\* receiver, emits nothing, and leaves each running task with its abort
\* pending. A task that has stopped does nothing further: the command loop
\* executes no command and starts no call, the event loop receives nothing and
\* leaves the codec alone, the emitter hands over and republishes nothing, and
\* none of them emits a status.
C30_ShutdownStopsTheThreeTasks ==
    /\ [](sessPhase = "live" => ENABLED Shutdown)
    /\ [](sessPhase = "shutdown" =>
            /\ (~Stopped(cmdTask) => ENABLED CommandTaskAborted)
            /\ (~Stopped(eventTask) => ENABLED EventTaskAborted)
            /\ (~Stopped(batchTask) => \A outcome \in AbandonedAppend :
                                          ENABLED BatchTaskAborted(outcome)))
    /\ [][ /\ (sessPhase = "live" /\ sessPhase' = "shutdown") =>
                /\ Emitted = <<>>
                /\ inbox' = IF Stopped(cmdTask) THEN inbox
                            ELSE Append(inbox, Command("Disconnect"))
                /\ UNCHANGED <<cmdTask, eventTask, batchTask>>
           /\ Stopped(cmdTask) =>
                /\ UNCHANGED <<cmdTask, executed, inFlight>>
                /\ EmittedBy("command") = <<>>
           /\ Stopped(eventTask) =>
                /\ UNCHANGED <<eventTask, arrived, codec>>
                /\ EmittedBy("event") = <<>>
           /\ Stopped(batchTask) =>
                /\ UNCHANGED <<batchTask, buffer, handed, republished>>
                /\ EmittedBy("batch") = <<>> ]_vars

\* the three aborts took effect with Disconnect not executed and a batch handed
\* to the store but not republished
C30_Witness ==
    /\ sessPhase = "shutdown"
    /\ cmdTask = "aborted"
    /\ eventTask = "aborted"
    /\ batchTask = "aborted"
    /\ Last(accepted).disconnect
    /\ \A i \in 1..Len(executed) : ~executed[i].command.disconnect
    /\ Len(handed) = Len(republished) + 1


\* ---- C25 ----
\* C25: while an append executes its file operations on the id, no read and no
\* other append executes its file operations on that id.
C25_AppendRunsAlone ==
    \A p, q \in HProcs :
        (p # q /\ Executing(p) /\ hop[p].op \in AppendOps) =>
            ~(Executing(q) /\ hop[q].op \in ReadOps \cup AppendOps)

\* ---- C29 ----
\* C29: a query_latest or query_before call that finds no store file when it
\* comes to read does not return an error.
C29_QueryWithoutStoreIsNotAnError ==
    \A p \in HProcs :
        (hop[p].pc = "finish" /\ hop[p].op \in {"query_latest", "query_before"}) =>
            hop[p].result # "err"


(***************************************************************************)
(* SpecExport: export_connection over an arbitrary stored table whose      *)
(* topics and payloads hold quotes, commas and line feeds.                 *)
(***************************************************************************)
MaxExportRows == 3  \* rows of a table that is exported at most

ExportMsgKinds ==
    { [topic |-> <<"a", "/", "b">>, payload |-> <<"a">>,
       qos |-> 0, retain |-> FALSE, direction |-> "In"],
      [topic |-> <<"a", Comma, Quote>>,
       payload |-> <<Quote, Comma, LineFeed, Quote, Quote, "a">>,
       qos |-> 2, retain |-> TRUE, direction |-> "Out"] }

ExportMsgs ==
    { [topic |-> k.topic, payload |-> k.payload, qos |-> k.qos, retain |-> k.retain,
       direction |-> k.direction, timestamp |-> t] : k \in ExportMsgKinds, t \in 1..MaxTs }

ExportContents == SeqsUpTo(ExportMsgs, 0, MaxExportRows)

TimeBounds == {None} \cup {Some(t) : t \in 0..(MaxTs + 1)}
Formats == {"csv", "CSV", "ndjson"}

\* export_connection: the reply, and the file left at the output path (none
\* when the call fails before File::create)
Export(format, from_ts, to_ts) ==
    /\ ClientReady
    /\ LET out == export_connection(db, format, from_ts, to_ts)
       IN  /\ reply' = [op |-> "export", format |-> format, from |-> from_ts, to |-> to_ts,
                        result |-> out.result, count |-> out.count]
           /\ exportFile' = IF out.result = "ok" THEN out.out ELSE exportFile
    /\ UNCHANGED <<db, leftover, txn, appended, pager, origin, stores, owned, assigned>>

\* the client takes the reply and moves the exported file away
ExportTaken ==
    /\ reply # NoReply
    /\ reply' = NoReply
    /\ exportFile' = NoFile
    /\ UNCHANGED <<db, leftover, txn, appended, pager, origin, stores, owned, assigned>>

InitExport ==
    /\ \/ db = NoFile /\ appended = <<>>
       \/ \E ms \in ExportContents : db = TableOf(ms) /\ appended = ms
    /\ leftover = FALSE
    /\ txn = NoTxn
    /\ reply = NoReply
    /\ pager = PagerIdle
    /\ origin = "new"
    /\ GuardAtRest
    /\ RegistryAtRest
    /\ SessionAtRest
    /\ FilesAtRest
    /\ PublishAtRest
    /\ RootAtRest

NextExport ==
    \/ (\E format \in Formats, from_ts \in TimeBounds, to_ts \in TimeBounds :
            Export(format, from_ts, to_ts))
         /\ UNCHANGED <<guardVars, registryVars, sessionVars, publishVars, rootVars>>
    \/ ExportTaken /\ UNCHANGED <<guardVars, registryVars, sessionVars, publishVars, rootVars>>

SpecExport == InitExport /\ [][NextExport]_vars

\* ---- C26 ----
\* the stored records inside the bounds, both inclusive, an absent bound open
InBounds(from_ts, to_ts) ==
    { rec \in StoredRecords :
        /\ (from_ts.some => from_ts.v <= rec.timestamp)
        /\ (to_ts.some => rec.timestamp <= to_ts.v) }

\* the records of S in ascending (timestamp, id) order
InAscendingOrder(S) ==
    CHOOSE seq \in [1..Cardinality(S) -> S] : Range(seq) = S /\ Ascending(seq)

\* a csv reader: a quote opens or closes a quoted stretch, so a character is
\* outside the quoted fields when an even number of quotes comes before it;
\* line feeds outside end the rows and commas outside separate the fields
QuotesBefore(text, i) == Cardinality({j \in 1..(i - 1) : text[j] = Quote})

Breaks(text, ch) ==
    {i \in 1..Len(text) : text[i] = ch /\ QuotesBefore(text, i) % 2 = 0}

\* the pieces of text that end at the breaks
SplitAt(text, ch) ==
    LET ends == Breaks(text, ch)
        nth(k) == CHOOSE i \in ends : Cardinality({j \in ends : j < i}) = k - 1
    IN  [k \in 1..Cardinality(ends) |->
            SubSeq(text, (IF k = 1 THEN 1 ELSE nth(k - 1) + 1), nth(k) - 1)]

\* the rows of the text, each with its fields as they are written
RawCsv(text) ==
    LET rows == SplitAt(text, LineFeed)
    IN  [r \in 1..Len(rows) |-> SplitAt(rows[r] \o <<Comma>>, Comma)]

Enclosed(raw) == Len(raw) >= 2 /\ Head(raw) = Quote /\ Last(raw) = Quote

\* the value of a field: of a quoted field the text between the enclosing
\* quotes with each doubled quote read as one
Unquote(raw) ==
    IF ~Enclosed(raw) THEN raw
    ELSE LET inner == SubSeq(raw, 2, Len(raw) - 1)
             kept == SelectSeq([i \in 1..Len(inner) |-> i],
                               LAMBDA i : ~(inner[i] = Quote /\ QuotesBefore(inner, i) % 2 = 1))
         IN  [k \in 1..Len(kept) |-> inner[kept[k]]]

ParseCsv(text) ==
    LET raw == RawCsv(text)
    IN  [r \in 1..Len(raw) |-> [f \in 1..Len(raw[r]) |-> Unquote(raw[r][f])]]

RECURSIVE Concat(_)
Concat(seqs) == IF seqs = <<>> THEN <<>> ELSE Head(seqs) \o Concat(Tail(seqs))

\* the seven values of a record as a reader of the csv file expects them
FieldsOf(rec) ==
    << <<ToString(rec.id)>>, <<ToString(rec.timestamp)>>, rec.topic, rec.payload,
       <<ToString(rec.qos)>>, <<IF rec.retain THEN "1" ELSE "0">>,
       <<IF rec.direction = "Out" THEN "out" ELSE "in">> >>

HeaderFields ==
    << <<"id">>, <<"timestamp">>, <<"topic">>, <<"payload">>, <<"qos">>, <<"retain">>,
       <<"direction">> >>

IsCsv(format) == format \in {"csv", "CSV"}

\* the lines of the exported file that hold records
RecordLines == IF IsCsv(reply.format) THEN Tail(exportFile.lines) ELSE exportFile.lines

\* line holds exactly the record rec, in the format
HoldsRecord(line, rec, format) ==
    /\ Last(line) = LineFeed
    /\ IF IsCsv(format)
       THEN ParseCsv(line) = <<FieldsOf(rec)>>
       ELSE Len(line) = 2 /\ line[1] = [json |-> rec]

Doubled(text) ==
    Concat([i \in 1..Len(text) |-> IF text[i] = Quote THEN <<Quote, Quote>> ELSE <<text[i]>>])

CsvExportDone == reply.op = "export" /\ reply.result = "ok" /\ IsCsv(reply.format)

ExportedRecords == InAscendingOrder(InBounds(reply.from, reply.to))

\* the file starts with the header line and, read as csv, gives back the seven
\* values of every exported record
CsvRoundTrip ==
    /\ Head(exportFile.lines) =
          <<"id", Comma, "timestamp", Comma, "topic", Comma, "payload", Comma,
            "qos", Comma, "retain", Comma, "direction", LineFeed>>
    /\ ParseCsv(Concat(exportFile.lines)) =
          <<HeaderFields>> \o [i \in 1..Len(ExportedRecords) |-> FieldsOf(ExportedRecords[i])]

DeleteReturnsOk ==
    (reply.op = "none" /\ reply'.op = "delete" /\ reply'.result = "ok") =>
        /\ db' = NoFile
        /\ guards' = NoLock
        /\ \A limit \in Limits : query_latest(db', limit) = <<>>
        /\ \A ts \in CursorTs, id \in CursorIds, limit \in Limits :
              query_before(db', ts, id, limit) = <<>>
        /\ \A format \in Formats, from_ts \in TimeBounds, to_ts \in TimeBounds :
              /\ export_connection(db', format, from_ts, to_ts).result = "err"
              /\ export_connection(db', format, from_ts, to_ts).out = NoFile

\* the store removed by a delete comes back in this step
RecreatedAfterDelete == origin = "deleted" /\ ~db.exists /\ db'.exists

AppendOpens == ~txn.open /\ txn'.open
ClearReturns == reply.op = "none" /\ reply'.op = "clear"

\* after a delete, query_latest answers as on a newly created store that
\* received the appends made since
FreshAfterDelete ==
    (origin = "deleted" /\ reply.op = "query_latest") =>
        /\ \A r \in Range(reply.rows) :
              r.id \in 1..Len(appended) /\ r = RecordOf(appended[r.id], r.id)
        /\ Len(reply.rows) = Min(ClampedLimit(reply.limit), Len(appended))

\* C24 (as stated): after deleteConnection completes no store exists, the
\* queries return empty and export fails, the token is removed, no record
\* from before the deletion is returned again, and the store stays absent
\* until a later append recreates it.
C24_AsStated_AbsentUntilAppend ==
    /\ [][DeleteReturnsOk]_vars
    /\ [][RecreatedAfterDelete => AppendOpens]_vars
    /\ []FreshAfterDelete

\* C24 (amended): as above, with the store staying absent until a later
\* append or a later clear recreates it.
C24_DeleteRemovesStoreAndToken ==
    /\ [][DeleteReturnsOk]_vars
    /\ [][RecreatedAfterDelete => (AppendOpens \/ ClearReturns)]_vars
    /\ []FreshAfterDelete

\* a delete returned Ok on a store that held records; the renamed-away file
\* could not be removed
C24_Witness ==
    /\ reply.op = "delete"
    /\ reply.result = "ok"
    /\ reply.n > 0
    /\ leftover
    /\ ~db.exists
    /\ guards = NoLock


(***************************************************************************)
(* SpecPaths: append, clear and delete on the store files of several       *)
(* connection ids, each call taken as one step.                            *)
(***************************************************************************)
MaxStored == 2      \* rows of one store file at most (SpecPaths)

PathMsgs == {m \in Msgs : m.timestamp = 1}

\* insert_batch as a whole: the file is opened (created when missing) and the
\* rows of the batch are committed after the rows it holds
insert_batch(file, messages) ==
    LET opened == open_rw_connection(file)
    IN  [opened EXCEPT
           !.rows = @ \o [i \in 1..Len(messages) |-> RowOf(messages[i], opened.seq + i)],
           !.seq = @ + Len(messages)]

\* append_batch / append_outgoing under the id
PathAppend(id, messages) ==
    /\ Len(owned[id]) + Len(messages) <= MaxStored
    /\ stores[db_path(id)].exists =>
          Len(stores[db_path(id)].rows) + Len(messages) <= MaxStored
    /\ stores' = [stores EXCEPT ![db_path(id)] = insert_batch(@, messages)]
    /\ owned' = [owned EXCEPT ![id] = @ \o messages]
    /\ assigned' = [assigned EXCEPT ![db_path(id)] =
                        @ \cup {stores'[db_path(id)].rows[i] :
                                   i \in (Len(stores'[db_path(id)].rows) - Len(messages) + 1)
                                            ..Len(stores'[db_path(id)].rows)}]
    /\ UNCHANGED exportFile

\* clear_connection under the id
PathClear(id) ==
    /\ stores' = [stores EXCEPT ![db_path(id)] = clear_db_file(@, "none").file]
    /\ owned' = [owned EXCEPT ![id] = <<>>]
    /\ UNCHANGED <<exportFile, assigned>>

\* delete_connection under the id
PathDelete(id) ==
    /\ stores' = [stores EXCEPT ![db_path(id)] = delete_db_file(@, "none").file]
    /\ owned' = [owned EXCEPT ![id] = <<>>]
    /\ UNCHANGED <<exportFile, assigned>>

InitPaths ==
    /\ StoreAtRest
    /\ GuardAtRest
    /\ RegistryAtRest
    /\ SessionAtRest
    /\ FilesAtRest
    /\ PublishAtRest
    /\ RootAtRest

NextPaths ==
    \/ (\E id \in RawIds, m \in PathMsgs : PathAppend(id, <<m>>))
         /\ UNCHANGED <<storeVars, guardVars, registryVars, sessionVars, publishVars, rootVars>>
    \/ (\E id \in RawIds : PathClear(id))
         /\ UNCHANGED <<storeVars, guardVars, registryVars, sessionVars, publishVars, rootVars>>
    \/ (\E id \in RawIds : PathDelete(id))
         /\ UNCHANGED <<storeVars, guardVars, registryVars, sessionVars, publishVars, rootVars>>

SpecPaths == InitPaths /\ [][NextPaths]_vars

\* ---- C28 ----
\* the page query_latest returns for the id from the files as they are
RecordsFor(files, id) == query_latest(files[db_path(id)], MAX_QUERY_LIMIT)

\* C28: an append, clear or delete under one connection id changes neither
\* the records returned for any other id nor the store file of any other id.
C28_ConnectionsIsolated ==
    [][\A id \in RawIds :
          owned'[id] = owned[id] =>
              /\ RecordsFor(stores', id) = RecordsFor(stores, id)
              /\ stores'[db_path(id)] = stores[db_path(id)]]_vars

(***************************************************************************)
(* Claims on the order of one flush (SpecSession).                         *)
(***************************************************************************)
\* a flush_batch is awaiting its append_batch
FlushInProgress == batchTask \in {"flush", "last_flush"}

\* while the append is awaited the buffer is empty and the batch taken is the
\* one handed to append_batch last; batches are emitted in the order handed over
FlushHoldsTakenBatch ==
    /\ FlushInProgress =>
          /\ buffer = <<>>
          /\ flushing # <<>>
          /\ flushing = Last(handed)
          /\ Len(handed) = Len(republished) + 1
    /\ Len(republished) <= Len(handed)
    /\ \A i \in 1..Len(republished) : republished[i] = handed[i]

\* a batch is emitted only by the step in which its append returns, as one
\* notification holding the batch handed over, and the flush began with an
\* empty buffer left behind
EmittedAfterAppend ==
    /\ republished' # republished =>
          /\ FlushInProgress
          /\ republished' = Append(republished, flushing)
          /\ flushing = handed[Len(republished) + 1]
    /\ handed' # handed =>
          /\ ~FlushInProgress
          /\ buffer' = <<>>
          /\ handed' = Append(handed, flushing')
          /\ republished' = republished

\* C31: on every flush the append for the batch completes (with success or
\* failure) before the batch notification is emitted, the buffer is empty from
\* the moment the batch is taken, and the notification carries exactly the
\* messages that were handed to append, as one batch.
C31_AppendThenEmitWhatWasTaken == []FlushHoldsTakenBatch /\ [][EmittedAfterAppend]_vars

\* two batches were emitted, the second of several messages after a failed append,
\* while the next messages wait in the buffer
C31_Witness ==
    /\ Len(republished) = 2
    /\ Len(republished[2]) >= 2
    /\ republished = handed
    /\ buffer # <<>>
    /\ \E i \in 1..Len(statusLog) : statusLog[i] = Status("Error", "batch")

(***************************************************************************)
(* Claims on connect requests that do not resolve (SpecRegistry).          *)
(***************************************************************************)
\* the host and the port a profile resolves to, read off the profile and the
\* broker entry it names
ResolvedHost(profile, brokers) ==
    IF profile.broker_id.some /\ \E i \in 1..Len(brokers) : brokers[i].id = profile.broker_id.v
    THEN brokers[1].host ELSE profile.host

ResolvedPort(profile, brokers) ==
    IF profile.broker_id.some /\ \E i \in 1..Len(brokers) : brokers[i].id = profile.broker_id.v
    THEN brokers[1].port ELSE profile.port

\* empty host after trimming, or port 0
Malformed(profile, brokers) ==
    \/ \A i \in 1..Len(ResolvedHost(profile, brokers)) : ResolvedHost(profile, brokers)[i] = " "
    \/ ResolvedPort(profile, brokers) = 0

\* exactly the malformed requests fail to resolve, and none of them is passed
\* on to MqttManager::connect
MalformedRejected ==
    \A profile \in Profiles, brokers \in BrokerList :
        /\ Malformed(profile, brokers) <=> ~resolve_connection(profile, brokers).ok
        /\ Malformed(profile, brokers) => ~ConnectAccepted(profile, brokers)

\* the rejection changes nothing
RejectionChangesNothing ==
    (lastCall' # lastCall /\ lastCall'.op = "connect") =>
        UNCHANGED <<sessions, nextSession, caller, created, shutdowns, retired, inboxes>>

\* C36: a connect request whose resolved parameters are malformed (empty host
\* after trimming, or port 0) is rejected before any session is created: no
\* session is started (so no Connecting notification is emitted), the registry
\* table is unchanged, and a session already registered under that id is
\* neither removed nor shut down.
C36_MalformedConnectRejected == []MalformedRejected /\ [][RejectionChangesNothing]_vars

\* a connect request for c1 was rejected while a session is registered under c1
C36_Witness ==
    /\ lastCall.op = "connect"
    /\ lastCall.id = "c1"
    /\ lastCall.result = "Broker port is required"
    /\ sessions["c1"] # NoSession
    /\ shutdowns[sessions["c1"]] = 0

(***************************************************************************)
(* Claims on what a session emits once it is shut down (SpecSession).      *)
(***************************************************************************)
\* the three tasks of the session have come to their end, one way or the other
TasksStopped ==
    /\ cmdTask \in {"ended", "aborted"}
    /\ eventTask \in {"ended", "aborted"}
    /\ batchTask \in {"ended", "aborted"}

\* C37: after disconnect(id) has returned success, a Disconnected status
\* notification for that id is eventually emitted by the disconnected session:
\* by the time its tasks have stopped, a Disconnected is among its notifications.
C37_DisconnectedEmittedAfterDisconnect ==
    (sessPhase = "shutdown" /\ TasksStopped) =>
        \E i \in 1..Len(statusLog) : statusLog[i].status = "Disconnected"

\* C39: every inbound batch that the batch emitter commits to the history store
\* is also republished exactly once, also when the session is shut down while
\* a flush is in progress: once the emitter has stopped, each committed batch
\* is among the republished ones, once.
C39_PersistedBatchesRepublished ==
    batchTask \in {"ended", "aborted"} =>
        \A i \in 1..Len(persisted) :
            Cardinality({j \in 1..Len(republished) : republished[j] = persisted[i]}) = 1

(***************************************************************************)
(* SpecSupersede: connect calls for one id, one after the other, with the  *)
(* tasks of the first session followed step by step.  MqttManager::connect *)
(* hands the session it removed to a spawned shutdown() and goes on to     *)
(* start_session; the spawned task runs when the runtime schedules it.     *)
(***************************************************************************)
\* the caller task and the connection id of the connect calls
Connector == 1
ConnectedId == "c1"
\* the session whose tasks are followed: the first one created
FirstSession == 1

\* connect, line 25: start_session of the first session
SupersedeStartFirst ==
    /\ nextSession = 0
    /\ ConnectStart(Connector)
    /\ StartSession

\* connect, line 25: start_session of a later session, which emits its Connecting
SupersedeStartNext ==
    /\ nextSession > 0
    /\ ConnectStart(Connector)
    /\ EmitStatus(<<Status("Connecting", "successor")>>)
    /\ UNCHANGED <<inbox, cmdTask, eventTask, batchTask, msgChan, buffer, flushing,
                   arrived, handed, republished, sessPhase, codec,
                   accepted, inFlight, executed, settled, heldAtShutdown, persisted>>

\* the task spawned for existing.shutdown() runs
SpawnedShutdownRuns ==
    /\ shutdowns[FirstSession] > 0
    /\ Shutdown

InitSupersede ==
    /\ StoreAtRest
    /\ GuardAtRest
    /\ RegistryAtRest
    /\ SessionAtRest
    /\ FilesAtRest
    /\ PublishAtRest
    /\ RootAtRest

NextSupersede ==
    \/ ConnectRemove(Connector, ConnectedId) /\ UNCHANGED <<storeVars, guardVars, sessionVars, fileVars, publishVars, rootVars>>
    \/ SupersedeStartFirst /\ UNCHANGED <<storeVars, guardVars, fileVars, publishVars, rootVars>>
    \/ SupersedeStartNext /\ UNCHANGED <<storeVars, guardVars, fileVars, publishVars, rootVars>>
    \/ ConnectInsert(Connector) /\ UNCHANGED <<storeVars, guardVars, sessionVars, fileVars, publishVars, rootVars>>
    \/ SpawnedShutdownRuns /\ UNCHANGED <<storeVars, guardVars, registryVars, fileVars, publishVars, rootVars>>
    \/ PollConnAck /\ UNCHANGED <<storeVars, guardVars, registryVars, fileVars, publishVars, rootVars>>
    \/ PollPublish /\ UNCHANGED <<storeVars, guardVars, registryVars, fileVars, publishVars, rootVars>>
    \/ PollOutgoingDisconnect /\ UNCHANGED <<storeVars, guardVars, registryVars, fileVars, publishVars, rootVars>>
    \/ PollOther /\ UNCHANGED <<storeVars, guardVars, registryVars, fileVars, publishVars, rootVars>>
    \/ PollErr /\ UNCHANGED <<storeVars, guardVars, registryVars, fileVars, publishVars, rootVars>>
    \/ CommandTake /\ UNCHANGED <<storeVars, guardVars, registryVars, fileVars, publishVars, rootVars>>
    \/ (\E result \in {"ok", "err"} : CommandStep(result))
         /\ UNCHANGED <<storeVars, guardVars, registryVars, fileVars, publishVars, rootVars>>
    \/ BatchRecv /\ UNCHANGED <<storeVars, guardVars, registryVars, fileVars, publishVars, rootVars>>
    \/ BatchTick /\ UNCHANGED <<storeVars, guardVars, registryVars, fileVars, publishVars, rootVars>>
    \/ BatchClosed /\ UNCHANGED <<storeVars, guardVars, registryVars, fileVars, publishVars, rootVars>>
    \/ (\E result \in {"ok", "err"} : FlushDone(result))
         /\ UNCHANGED <<storeVars, guardVars, registryVars, fileVars, publishVars, rootVars>>
    \/ CommandTaskAborted /\ UNCHANGED <<storeVars, guardVars, registryVars, fileVars, publishVars, rootVars>>
    \/ EventTaskAborted /\ UNCHANGED <<storeVars, guardVars, registryVars, fileVars, publishVars, rootVars>>
    \/ (\E outcome \in AbandonedAppend : BatchTaskAborted(outcome))
         /\ UNCHANGED <<storeVars, guardVars, registryVars, fileVars, publishVars, rootVars>>

SpecSupersede == InitSupersede /\ [][NextSupersede]_vars

\* the session that superseded the first one has emitted its Connecting
SuccessorAnnounced ==
    \E i \in 1..Len(statusLog) : statusLog[i] = Status("Connecting", "successor")

\* C38: after a connect(id) has superseded an existing session and the new
\* session has emitted its Connecting notification, the superseded session
\* emits no further status notification and no further message batch for that id.
C38_SupersededSessionSilent ==
    [][SuccessorAnnounced =>
          /\ republished' = republished
          /\ \A i \in 1..Len(Emitted) : Emitted[i].by = "successor"]_vars

(***************************************************************************)
(* SpecPublish: mqtt_publish run by several tasks for one connection: the  *)
(* Publish command is sent through the registry, then the Out record is    *)
(* appended with append_outgoing.  Of the session the command loop and the *)
(* shutdown are followed; of the store the file of the connection.         *)
(***************************************************************************)
\* the MqttBatchItem append_outgoing builds for the publish whose command was
\* the n-th accepted; now_millis is read when the item is built
OutgoingMsg(n, now) ==
    [topic |-> "a/b", payload |-> n, qos |-> 0, retain |-> FALSE,
     direction |-> "Out", timestamp |-> now]

PublishFaults == {"none", "open", "insert"}

\* the publish requests made so far: returned or under way
PublishesMade == Len(outcomes) + Cardinality({p \in Publishers : publisher[p] # PublisherIdle})

\* mutant: the Out record is written although the registry call failed
PublishNotFound_AppendsAnyway(p) ==
    /\ publisher[p] = PublisherIdle
    /\ PublishesMade < MaxPublishes
    /\ sessPhase # "live"
    /\ outcomes' = Append(outcomes, [n |-> 0, accepted |-> FALSE,
                                     result |-> "ConnectionNotFound"])
    /\ db' = insert_batch(db, <<OutgoingMsg(0, 1)>>)
    /\ UNCHANGED <<publisher, leftover, txn, appended, reply, pager, origin, sessionVars>>

\* MqttManager::publish finds no session under the id: ConnectionNotFound is
\* returned by mqtt_publish with `?`, append_outgoing is not reached
PublishNotFound(p) ==
    /\ publisher[p] = PublisherIdle
    /\ PublishesMade < MaxPublishes
    /\ sessPhase # "live"
    /\ outcomes' = Append(outcomes, [n |-> 0, accepted |-> FALSE,
                                     result |-> "ConnectionNotFound"])
    /\ UNCHANGED <<publisher, storeVars, sessionVars>>

\* MqttManager::publish on a registered id: session.send(Publish); the request
\* goes on to append_outgoing when the command was accepted
PublishSend(p) ==
    /\ publisher[p] = PublisherIdle
    /\ PublishesMade < MaxPublishes
    /\ SendCommand("Publish")
    /\ IF accepted' # accepted
       THEN /\ publisher' = [publisher EXCEPT ![p] = [pc |-> "persist", n |-> Len(accepted) + 1]]
            /\ UNCHANGED outcomes
       ELSE /\ outcomes' = Append(outcomes, [n |-> 0, accepted |-> FALSE,
                                             result |-> "CommandChannelClosed"])
            /\ UNCHANGED publisher
    /\ UNCHANGED storeVars

\* append_outgoing and the return of mqtt_publish: insert_batch of the one Out
\* record in its transaction, or a failure to open the store or to insert
PublishPersist(p, now, fault) ==
    /\ publisher[p].pc = "persist"
    /\ db' = CASE fault = "none"   -> insert_batch(db, <<OutgoingMsg(publisher[p].n, now)>>)
              [] fault = "insert" -> open_rw_connection(db)
              [] OTHER            -> db
    /\ appended' = IF fault = "none"
                    THEN Append(appended, OutgoingMsg(publisher[p].n, now)) ELSE appended
    /\ outcomes' = Append(outcomes,
                          [n |-> publisher[p].n, accepted |-> TRUE,
                           result |-> IF fault = "none" THEN "Ok"
                                      ELSE "failed to persist outgoing history"])
    /\ publisher' = [publisher EXCEPT ![p] = PublisherIdle]
    /\ UNCHANGED <<leftover, txn, reply, pager, origin, guards, sessionVars>>

InitPublish ==
    /\ StoreAtRest
    /\ GuardAtRest
    /\ RegistryAtRest
    /\ SessionAtRest
    /\ FilesAtRest
    /\ PublishAtRest
    /\ RootAtRest

NextPublish ==
    \/ StartSession /\ UNCHANGED <<storeVars, guardVars, registryVars, fileVars, publishVars, rootVars>>
    \/ (\E p \in Publishers : PublishNotFound(p))
         /\ UNCHANGED <<guardVars, registryVars, fileVars, rootVars>>
    \/ (\E p \in Publishers : PublishSend(p))
         /\ UNCHANGED <<guardVars, registryVars, fileVars, rootVars>>
    \/ (\E p \in Publishers, now \in 1..MaxTs, fault \in PublishFaults :
            PublishPersist(p, now, fault))
         /\ UNCHANGED <<nextLock, lockHeld, lockQueue, hop, registryVars, fileVars, rootVars>>
    \/ CommandTake /\ UNCHANGED <<storeVars, guardVars, registryVars, fileVars, publishVars, rootVars>>
    \/ (\E result \in {"ok", "err"} : CommandStep(result))
         /\ UNCHANGED <<storeVars, guardVars, registryVars, fileVars, publishVars, rootVars>>
    \/ Shutdown /\ UNCHANGED <<storeVars, guardVars, registryVars, fileVars, publishVars, rootVars>>
    \/ CommandTaskAborted /\ UNCHANGED <<storeVars, guardVars, registryVars, fileVars, publishVars, rootVars>>

SpecPublish == InitPublish /\ [][NextPublish]_vars

\* ---- C32 ----
\* the Out records in the store of the connection whose payload is that of the
\* publish accepted as the n-th command
OutRecordsOf(n) ==
    {i \in 1..Len(Visible) :
        Visible[i].direction = direction_to_int("Out") /\ Visible[i].payload = n}

OutRecords == {i \in 1..Len(Visible) : Visible[i].direction = direction_to_int("Out")}

\* a publish request returns with a failure of the registry call
RegistryCallFailed ==
    /\ Len(outcomes') = Len(outcomes) + 1
    /\ ~Last(outcomes').accepted

\* C32 as stated: a publish request records an Out history record exactly when
\* its Publish command was accepted into the session inbox: none when the
\* registry call failed, exactly one when it succeeded.
C32_AsStated_OneOutRecordWhenAccepted ==
    \A i \in 1..Len(outcomes) :
        Cardinality(OutRecordsOf(outcomes[i].n)) = IF outcomes[i].accepted THEN 1 ELSE 0

\* the Out records are those of the requests that returned Ok, one each
OutRecordPerPersistedPublish ==
    /\ \A i \in 1..Len(outcomes) :
          /\ Cardinality(OutRecordsOf(outcomes[i].n))
                = IF outcomes[i].accepted /\ outcomes[i].result = "Ok" THEN 1 ELSE 0
          /\ outcomes[i].accepted =>
                /\ outcomes[i].n \in 1..Len(accepted)
                /\ ~accepted[outcomes[i].n].disconnect
          /\ outcomes[i].result = "Ok" => outcomes[i].accepted
    /\ Cardinality(OutRecords)
          = Cardinality({i \in 1..Len(outcomes) : outcomes[i].result = "Ok"})
    /\ \A p \in Publishers :
          publisher[p].pc = "persist" => OutRecordsOf(publisher[p].n) = {}

\* C32 as the code has it: when the registry call fails (ConnectionNotFound or
\* CommandChannelClosed) no record is appended; when it succeeds, append_outgoing
\* is called once, whatever becomes of the wire send: the request returns Ok
\* with exactly one Out record appended, or returns an error with none
\* appended when the store could not be opened or written.
C32_OutRecordWhenAcceptedAndPersisted ==
    /\ []OutRecordPerPersistedPublish
    /\ [][RegistryCallFailed => (db' = db /\ Last(outcomes').result # "Ok")]_vars

\* a publish was accepted and its Out record is stored although the command was
\* dropped with the aborted command loop, and was never executed; a later
\* request found no session
C32_Witness ==
    /\ Len(outcomes) = 2
    /\ outcomes[1].accepted /\ outcomes[1].result = "Ok"
    /\ Cardinality(OutRecordsOf(outcomes[1].n)) = 1
    /\ cmdTask = "aborted"
    /\ \A i \in 1..Len(executed) : executed[i].command.n # outcomes[1].n
    /\ outcomes[2].result = "ConnectionNotFound"

\* ---- C40 ----
\* C40: for one connection, the Out records in the history appear (by id) in
\* the same relative order in which the corresponding Publish commands were
\* accepted into the session inbox, also when several publish requests for
\* that connection are issued concurrently.
C40_OutRecordsInAcceptanceOrder ==
    \A i, j \in OutRecords :
        Visible[i].id < Visible[j].id => Visible[i].payload < Visible[j].payload

(***************************************************************************)
(* Claims on the ids of the records of one store (SpecPaths).              *)
(***************************************************************************)
\* C33: within one connection's history the store-assigned id is strictly
\* increasing in insertion order, and a (timestamp, id) pair once assigned to a
\* record is never assigned to a different record afterwards, also after
\* clear(id) followed by new appends.
C33_TimestampIdPairNeverReused ==
    \A path \in StorePaths :
        /\ stores[path].exists =>
              \A i, j \in 1..Len(stores[path].rows) :
                  i < j => stores[path].rows[i].id < stores[path].rows[j].id
        /\ \A a, b \in assigned[path] :
              (a.ts_ms = b.ts_ms /\ a.id = b.id) => a = b

(***************************************************************************)
(* SpecPaging: a client pages through the history of a connection with     *)
(* query_latest and query_before while batches are appended to it.  Each   *)
(* query is one SELECT on its own read-only connection and sees the        *)
(* batches committed before it; insert_batch commits a batch as a whole.   *)
(***************************************************************************)
\* the messages appended during a pass: any timestamp, one kind
PagingMsgs == {m \in Msgs : m.payload = "1"}

\* append_batch commits a batch
PagingAppend(messages) ==
    /\ Len(appended) + Len(messages) <= MaxRows
    /\ db' = insert_batch(db, messages)
    /\ appended' = appended \o messages
    /\ UNCHANGED <<leftover, txn, reply, pager, origin>>

InitPaging ==
    /\ StoreAtRest
    /\ GuardAtRest
    /\ RegistryAtRest
    /\ SessionAtRest
    /\ FilesAtRest
    /\ PublishAtRest
    /\ RootAtRest

NextPaging ==
    \/ (\E messages \in SeqsUpTo(PagingMsgs, 1, MaxBatch) : PagingAppend(messages))
         /\ UNCHANGED <<guardVars, registryVars, sessionVars, fileVars, publishVars, rootVars>>
    \/ (\E limit \in Limits : PagerStart(limit, "first"))
         /\ UNCHANGED <<guardVars, registryVars, sessionVars, fileVars, publishVars, rootVars>>
    \/ PagerNext /\ UNCHANGED <<guardVars, registryVars, sessionVars, fileVars, publishVars, rootVars>>
    \/ PagerReset /\ UNCHANGED <<guardVars, registryVars, sessionVars, fileVars, publishVars, rootVars>>

SpecPaging == InitPaging /\ [][NextPaging]_vars

\* C34: cursor pagination is stable under concurrent inserts: a paging pass
\* (query_latest, then query_before with the cursor of the oldest record of the
\* previous page) that runs while appends happen on the same connection never
\* returns any record twice, and when it ends it has not skipped any record
\* that was already stored when the pass started.
C34_PagingStableUnderInserts ==
    pager.active =>
        /\ Len(pager.seen) = Cardinality(Range(pager.seen))
        /\ Range(pager.seen) \subseteq StoredRecords
        /\ pager.done => pager.stored \subseteq Range(pager.seen)

\* a pass of several pages has ended; records were appended while it ran, one
\* of them older by timestamp than a record stored at the start, and the pass
\* returned a record that was appended after it had started
C34_Witness ==
    /\ pager.active /\ pager.done
    /\ pager.pages >= 3
    /\ Cardinality(pager.stored) >= 2
    /\ \E new \in StoredRecords \ pager.stored, old \in pager.stored :
          new.timestamp < old.timestamp
    /\ Range(pager.seen) \ pager.stored # {}

(***************************************************************************)
(* SpecRoot: the history root directory over several runs of the process.  *)
(* Every history call starts with ensure_paths, which on the first call of *)
(* a run creates the directories and removes the renamed-away files that   *)
(* earlier clears and deletes left behind; each call is taken as one step. *)
(***************************************************************************)
MaxLive == 2        \* rows of one store file at most (SpecRoot)

\* the reading of now_millis() as deleting_path formats it; with one reading two
\* files renamed away under one id get the same name, the second replacing the first
Millis == {"1"}

RootMsgs == {m \in Msgs : m.timestamp = 1 /\ m.payload = "1"}

\* ".deleting."
DeletingMark == <<".", "d", "e", "l", "e", "t", "i", "n", "g", ".">>

\* str::contains
contains(name, pattern) ==
    \E i \in 1..(Len(name) - Len(pattern) + 1) :
        SubSeq(name, i, i + Len(pattern) - 1) = pattern

\* deleting_path: "{file_name}.deleting.{now_millis()}" next to the file
deleting_path(path, now) == path \o DeletingMark \o <<now>>

NoFiles == [name \in {} |-> NoFile]

\* the file at a name of the directory
FileAt(files, name) == IF name \in DOMAIN files THEN files[name] ELSE NoFile

\* the directory with the file at the name (no entry when the file does not exist)
WithFile(files, name, file) ==
    IF file.exists
    THEN [n \in DOMAIN files \cup {name} |-> IF n = name THEN file ELSE files[n]]
    ELSE [n \in DOMAIN files \ {name} |-> files[n]]

\* the renamed-away files of the directory
Leftovers(files) == {n \in DOMAIN files : contains(n, DeletingMark)}

\* mutant: a file that cannot be removed fails the scan
cleanup_deleting_files_Surfaces(files, fault, stuck) ==
    IF fault = "scan" \/ Leftovers(files) \cap stuck # {}
    THEN [files |-> files, result |-> "err"]
    ELSE [files |-> [n \in {m \in DOMAIN files : ~contains(m, DeletingMark)} |-> files[n]],
          result |-> "ok"]

\* cleanup_deleting_files: read_dir failing is the only error; every file whose
\* name contains ".deleting." is removed unless remove_file fails on it (stuck)
cleanup_deleting_files(files, fault, stuck) ==
    IF fault = "scan"
    THEN [files |-> files, result |-> "err"]
    ELSE [files |-> [n \in {m \in DOMAIN files : ~contains(m, DeletingMark) \/ m \in stuck}
                        |-> files[n]],
          result |-> "ok"]

InitFaults == {"none", "mkdir", "scan"}

\* ensure_paths: the cached root when it is set; otherwise create_dir_all,
\* cleanup_deleting_files, and only then root_dir.set
ensure_paths(root, files, fault, stuck) ==
    IF root
    THEN [root |-> TRUE, files |-> files, result |-> "ok", init |-> "cached"]
    ELSE IF fault = "mkdir"
    THEN [root |-> FALSE, files |-> files, result |-> "err", init |-> "failed"]
    ELSE LET cleaned == cleanup_deleting_files(files, fault, stuck)
         IN  IF cleaned.result = "err"
             THEN [root |-> FALSE, files |-> files, result |-> "err", init |-> "failed"]
             ELSE [root |-> TRUE, files |-> cleaned.files, result |-> "ok", init |-> "done"]

\* what can happen to the ensure_paths of a call: nothing when the root is set,
\* else a fault and the renamed-away files remove_file fails on
Starts(root, files) ==
    IF root THEN {<<"none", {}>>}
    ELSE {<<"none", stuck>> : stuck \in SUBSET Leftovers(files)}
            \cup {<<fault, {}>> : fault \in InitFaults \ {"none"}}

\* the value a history call returns, with what happened in it
RootReply(op, id, e, start, fault, made, result, rows) ==
    [op |-> op, id |-> id, init |-> e.init, initFault |-> start[1], stuck |-> start[2],
     fault |-> fault, made |-> made, result |-> result, rows |-> rows]

\* append_batch under the id
RootAppend(id, messages, start) ==
    LET e == ensure_paths(rootDir, rootFiles, start[1], start[2])
        path == db_path(id)
    IN  /\ Len(live[id]) + Len(messages) <= MaxLive
        /\ rootDir' = e.root
        /\ IF e.result = "err"
           THEN /\ rootFiles' = rootFiles
                /\ live' = live
                /\ reply' = RootReply("append", id, e, start, "none", {}, "err", <<>>)
           ELSE /\ rootFiles' = WithFile(e.files, path,
                                         insert_batch(FileAt(e.files, path), messages))
                /\ live' = [live EXCEPT ![id] = @ \o messages]
                /\ reply' = RootReply("append", id, e, start, "none", {}, "ok", <<>>)
        /\ UNCHANGED <<db, leftover, txn, appended, pager, origin>>

\* query_latest under the id
RootQuery(id, start) ==
    LET e == ensure_paths(rootDir, rootFiles, start[1], start[2])
        path == db_path(id)
    IN  /\ rootDir' = e.root
        /\ live' = live
        /\ IF e.result = "err"
           THEN /\ rootFiles' = rootFiles
                /\ reply' = RootReply("query", id, e, start, "none", {}, "err", <<>>)
           ELSE /\ rootFiles' = e.files
                /\ reply' = RootReply("query", id, e, start, "none", {}, "ok",
                                      query_latest(FileAt(e.files, path), MAX_QUERY_LIMIT))
        /\ UNCHANGED <<db, leftover, txn, appended, pager, origin>>

\* clear_connection (rotate == clear_db_file) or delete_connection (rotate ==
\* delete_db_file) under the id: the store file is renamed to deleting_path and
\* stays there when it was not removed
RootRotate(op, id, fault, now, start) ==
    LET e == ensure_paths(rootDir, rootFiles, start[1], start[2])
        path == db_path(id)
        old == FileAt(e.files, path)
        out == IF op = "clear" THEN clear_db_file(old, fault) ELSE delete_db_file(old, fault)
        made == IF out.left THEN {deleting_path(path, now)} ELSE {}
    IN  /\ rootDir' = e.root
        /\ IF e.result = "err"
           THEN /\ rootFiles' = rootFiles
                /\ live' = live
                /\ reply' = RootReply(op, id, e, start, "none", {}, "err", <<>>)
           ELSE /\ rootFiles' =
                      IF out.left
                      THEN WithFile(WithFile(e.files, path, out.file),
                                    deleting_path(path, now), old)
                      ELSE WithFile(e.files, path, out.file)
                /\ live' = IF out.file = old THEN live ELSE [live EXCEPT ![id] = <<>>]
                /\ reply' = RootReply(op, id, e, start, fault, made, out.result, <<>>)
        /\ UNCHANGED <<db, leftover, txn, appended, pager, origin>>

\* the process ends and is started again: the files stay, root_dir is unset
RootRestart ==
    /\ rootDir \/ reply # NoReply
    /\ rootDir' = FALSE
    /\ reply' = NoReply
    /\ UNCHANGED <<rootFiles, live>>
    /\ UNCHANGED <<db, leftover, txn, appended, pager, origin>>

InitRoot ==
    /\ StoreAtRest
    /\ GuardAtRest
    /\ RegistryAtRest
    /\ SessionAtRest
    /\ FilesAtRest
    /\ PublishAtRest
    /\ RootAtRest

NextRoot ==
    \/ (\E id \in RootIds, m \in RootMsgs, start \in Starts(rootDir, rootFiles) :
            RootAppend(id, <<m>>, start))
         /\ UNCHANGED <<guardVars, registryVars, sessionVars, fileVars, publishVars>>
    \/ (\E id \in RootIds, start \in Starts(rootDir, rootFiles) : RootQuery(id, start))
         /\ UNCHANGED <<guardVars, registryVars, sessionVars, fileVars, publishVars>>
    \/ (\E id \in RootIds, fault \in Faults, now \in Millis,
           start \in Starts(rootDir, rootFiles) : RootRotate("clear", id, fault, now, start))
         /\ UNCHANGED <<guardVars, registryVars, sessionVars, fileVars, publishVars>>
    \/ (\E id \in RootIds, fault \in Faults \ {"open"}, now \in Millis,
           start \in Starts(rootDir, rootFiles) : RootRotate("delete", id, fault, now, start))
         /\ UNCHANGED <<guardVars, registryVars, sessionVars, fileVars, publishVars>>
    \/ RootRestart
         /\ UNCHANGED <<guardVars, registryVars, sessionVars, fileVars, publishVars>>

SpecRoot == InitRoot /\ [][NextRoot]_vars

\* ---- C35 ----
\* the messages of the records a query for the id returns from the directory
ReadAsHistory(id) ==
    LET page == query_latest(FileAt(rootFiles, db_path(id)), MAX_QUERY_LIMIT)
    IN  [i \in 1..Len(page) |-> MsgOf(page[i])]

\* a call fails only when the root could not be initialized (directories, scan)
\* or the rotation failed at the rename or at the new file: never because a
\* renamed-away file could not be removed, in the call or at initialization
RemovalFailureNotSurfaced ==
    reply.op # "none" /\ reply.result = "err" =>
        reply.initFault \in {"mkdir", "scan"} \/ reply.fault \in {"rename", "open"}

\* a call is served only with the root initialized
ServedAfterRootInit ==
    reply.op # "none" =>
        /\ reply.result = "ok" => rootDir /\ reply.init \in {"done", "cached"}
        /\ reply.init = "failed" => ~rootDir /\ reply.result = "err"

\* what is read as the history of an id is what was appended under it since its
\* last clear or delete, whatever renamed-away files lie in the directory
LeftoverNeverRead ==
    /\ \A id \in RootIds : ReadAsHistory(id) = live[id]
    /\ reply.op = "query" /\ reply.result = "ok" =>
          reply.rows = query_latest(FileAt(rootFiles, db_path(reply.id)), MAX_QUERY_LIMIT)

\* the initialization of the root removes every renamed-away file it can remove
LeftoversRemovedAtRootInit ==
    ~rootDir /\ rootDir' =>
        Leftovers(rootFiles') \subseteq reply'.stuck \cup reply'.made

\* C35: clear and delete return success even when the renamed-away store file
\* cannot be removed; the leftover file is never read as the history of a
\* connection; leftover files are removed when the store root is initialized,
\* best effort and without surfacing a failed removal, and the root is
\* initialized before the first history call is served.
C35_LeftoversDeferredAndNeverRead ==
    /\ [](RemovalFailureNotSurfaced /\ ServedAfterRootInit /\ LeftoverNeverRead)
    /\ [][LeftoversRemovedAtRootInit]_vars

\* the first call of a run is a clear: the initialization could not remove a
\* leftover of an earlier run, which still holds records, the clear could not
\* remove the file it renamed away, and it returned success
C35_Witness ==
    /\ reply.op = "clear"
    /\ reply.result = "ok"
    /\ reply.init = "done"
    /\ reply.fault = "remove"
    /\ reply.stuck # {}
    /\ reply.made # {}
    /\ reply.made \cap reply.stuck = {}
    /\ \E n \in reply.stuck : n \in DOMAIN rootFiles /\ rootFiles[n].rows # <<>>
    /\ ReadAsHistory(reply.id) = <<>>

====
